---- MODULE Spec2Model ----
(***************************************************************************)
(* State-machine model of the snip-rust selection overlay                  *)
(* (src/overlay/state.rs, handles.rs, toolbar.rs), of the controller's     *)
(* window-event dispatch (src/main.rs) and of the pinned snapshot windows  *)
(* (src/paste_window.rs).                                                  *)
(*                                                                         *)
(* Cursor positions are f64 in the source.  They are modelled as integers  *)
(* counting 1/SubPixel of a pixel, so that the `as i32` / `as u32`         *)
(* conversions (truncation toward zero, saturation) are real operations.   *)
(* Option<T> is modelled as a sequence: <<>> is None, <<v>> is Some(v).    *)
(***************************************************************************)
EXTENDS Integers, Sequences, FiniteSets, TLC

\* ------------------------------------------------------------------------
\* Bounds of the model
\* ------------------------------------------------------------------------
\* capture (monitor) width in pixels
W == 300
\* capture (monitor) height in pixels
H == 44
\* cursor positions are multiples of 1/SubPixel pixel
SubPixel == 2
\* number of cursor moves explored in the capture session
MaxMoves == 3
\* longest side of the rectangles given to hit_test_handle
MaxSide == 8
\* longest side of the captures and selections given to take_selection_png
MaxCapture == 3

\* ------------------------------------------------------------------------
\* Program constants
\* ------------------------------------------------------------------------
TB_BUTTONS == 5
TB_BTN_W == 48
TB_BTN_H == 26
TB_BTN_PAD_X == 6
TB_BTN_GAP == 4
TB_MARGIN == 6
INSET_PAD == 4
\* hit tolerance of a resize handle
R == 5
\* minimum size a resize clamps to
MIN == 4
\* border width of a pinned window
margin == 2

\* largest i32
I32Max == 2147483647

\* ------------------------------------------------------------------------
\* Option and integer helpers
\*
\* A u32 is stored as its 32-bit pattern read as a two's-complement integer:
\* a stored value v >= 0 is the u32 v, a stored value v < 0 is the u32
\* 2^32 + v (what `(-6i32) as u32` produces).  With this encoding `as i32`
\* and `as u32` between the two integer types are the identity on the stored
\* value, wrapping addition and subtraction are plain + and -, and only the
\* comparisons and the overflow tests differ between u32 and i32.
\* ------------------------------------------------------------------------
None == <<>>
Some(v) == <<v>>
IsSome(o) == o # <<>>
Unwrap(o) == o[1]

Min2(a, b) == IF a <= b THEN a ELSE b
Max2(a, b) == IF a >= b THEN a ELSE b
Abs(a) == IF a < 0 THEN -a ELSE a

\* Rust integer division truncates toward zero
TruncDiv(a, b) == IF a >= 0 THEN a \div b ELSE -((-a) \div b)

\* u32 -> i32 (`as i32`) and i32 -> u32 (`as u32`): same 32 bits
U32AsI32(u) == u
I32AsU32(i) == i
\* unsigned comparisons on stored u32 values
ULt(a, b) == IF (a >= 0) = (b >= 0) THEN a < b ELSE a >= 0
ULe(a, b) == a = b \/ ULt(a, b)
UMin(a, b) == IF ULt(b, a) THEN b ELSE a
\* f64 -> i32 (`as i32`): truncation toward zero, saturating
F64AsI32(f) ==
    LET t == TruncDiv(f, SubPixel)
    IN  IF t > I32Max THEN I32Max ELSE IF t < -I32Max - 1 THEN -I32Max - 1 ELSE t
\* f64 -> u32 (`as u32`): truncation toward zero, saturating (negative gives 0;
\* cursor positions of 2^31 pixels and more are outside the model)
F64AsU32(f) ==
    LET t == TruncDiv(f, SubPixel)
    IN  IF t < 0 THEN 0 ELSE t

\* u32 + u32: wraps in a release build, panics in a debug build
AddU32(a, b) == a + b
AddU32Overflows(a, b) ==
    \/ a < 0 /\ b < 0
    \/ (a < 0) # (b < 0) /\ a + b >= 0
\* u32 - u32: wraps in a release build, panics in a debug build
SubU32(a, b) == a - b
SubU32Overflows(a, b) == ULt(a, b)

\* i32::clamp(v, lo, hi); the standard library asserts lo <= hi
Clamp(v, lo, hi) == IF v < lo THEN lo ELSE IF v > hi THEN hi ELSE v
ClampPanics(lo, hi) == lo > hi

\* ------------------------------------------------------------------------
\* handles.rs
\* ------------------------------------------------------------------------
ResizeHandle ==
    {"TopLeft", "Top", "TopRight", "Right", "BottomRight", "Bottom", "BottomLeft", "Left"}

\* the eight candidate points, in the order the source checks them
HandlePoints(x, y, w, h) ==
    << <<x, y, "TopLeft">>,
       <<x + TruncDiv(w, 2), y, "Top">>,
       <<x + w - 1, y, "TopRight">>,
       <<x + w - 1, y + TruncDiv(h, 2), "Right">>,
       <<x + w - 1, y + h - 1, "BottomRight">>,
       <<x + TruncDiv(w, 2), y + h - 1, "Bottom">>,
       <<x, y + h - 1, "BottomLeft">>,
       <<x, y + TruncDiv(h, 2), "Left">> >>

HandleMatches(cx, cy, pt) == Abs(cx - pt[1]) <= R /\ Abs(cy - pt[2]) <= R

\* Option<ResizeHandle>: the first point within tolerance wins
hit_test_handle(cx, cy, ux, uy, uw, uh) ==
    IF uw = 0 \/ uh = 0 THEN None
    ELSE LET pts == HandlePoints(U32AsI32(ux), U32AsI32(uy), U32AsI32(uw), U32AsI32(uh))
             hits == {i \in 1..8 : HandleMatches(cx, cy, pts[i])}
         IN  IF hits = {} THEN None
             ELSE Some(pts[CHOOSE i \in hits : \A j \in hits : i <= j][3])

\* ------------------------------------------------------------------------
\* toolbar.rs
\* ------------------------------------------------------------------------
ToolbarTotalW == TB_BTN_PAD_X * 2 + TB_BUTTONS * TB_BTN_W + (TB_BUTTONS - 1) * TB_BTN_GAP
ToolbarTotalH == TB_BTN_H + 2

\* horizontal centring under/over the selection, clamped to the screen
ToolbarCenteredX(sel_x, sel_w, sw) ==
    LET bx0 == sel_x + TruncDiv(sel_w, 2) - TruncDiv(ToolbarTotalW, 2)
        bx1 == IF bx0 < 0 THEN 0 ELSE bx0
        max_x == sw - ToolbarTotalW
    IN  IF max_x < 0 THEN 0 ELSE IF bx1 > max_x THEN max_x ELSE bx1

\* compute_toolbar_rect trying the place above the selection first
compute_toolbar_rect_AboveFirst(usel_x, usel_y, usel_w, usel_h, screen_w, screen_h) ==
    IF usel_w = 0 \/ usel_h = 0 THEN None
    ELSE
    LET sw == U32AsI32(screen_w)
        sh == U32AsI32(screen_h)
        sel_x == U32AsI32(usel_x)
        sel_y == U32AsI32(usel_y)
        sel_w == U32AsI32(usel_w)
        sel_h == U32AsI32(usel_h)
        sel_bottom == sel_y + sel_h
        space_below == Max2(sh - sel_bottom, 0)
        space_above == sel_y
    IN  IF sw <= 0 \/ sh <= 0 THEN None
        ELSE IF space_above >= ToolbarTotalH + TB_MARGIN
                /\ sel_y - TB_MARGIN - ToolbarTotalH >= 0
             THEN Some(<<ToolbarCenteredX(sel_x, sel_w, sw), sel_y - TB_MARGIN - ToolbarTotalH,
                         ToolbarTotalW, ToolbarTotalH>>)
        ELSE IF space_below >= ToolbarTotalH + TB_MARGIN
             THEN Some(<<ToolbarCenteredX(sel_x, sel_w, sw), sel_bottom + TB_MARGIN,
                         ToolbarTotalW, ToolbarTotalH>>)
        ELSE LET bx0 == sel_x + sel_w - ToolbarTotalW - INSET_PAD
                 by0 == sel_y + sel_h - ToolbarTotalH - INSET_PAD
                 bx1 == IF bx0 < 0 THEN 0 ELSE bx0
                 by1 == IF by0 < 0 THEN 0 ELSE by0
                 max_x == sw - ToolbarTotalW
                 max_y == sh - ToolbarTotalH
                 bx2 == IF bx1 > max_x THEN Max2(max_x, 0) ELSE bx1
                 by2 == IF by1 > max_y THEN Max2(max_y, 0) ELSE by1
             IN  Some(<<bx2, by2, ToolbarTotalW, ToolbarTotalH>>)

\* Option<(i32,i32,i32,i32)>
compute_toolbar_rect(usel_x, usel_y, usel_w, usel_h, screen_w, screen_h) ==
    IF usel_w = 0 \/ usel_h = 0 THEN None
    ELSE
    LET sw == U32AsI32(screen_w)
        sh == U32AsI32(screen_h)
        sel_x == U32AsI32(usel_x)
        sel_y == U32AsI32(usel_y)
        sel_w == U32AsI32(usel_w)
        sel_h == U32AsI32(usel_h)
        sel_bottom == sel_y + sel_h
        space_below == Max2(sh - sel_bottom, 0)
        space_above == sel_y
    IN  IF sw <= 0 \/ sh <= 0 THEN None
        ELSE IF space_below >= ToolbarTotalH + TB_MARGIN
             THEN Some(<<ToolbarCenteredX(sel_x, sel_w, sw), sel_bottom + TB_MARGIN,
                         ToolbarTotalW, ToolbarTotalH>>)
        ELSE IF space_above >= ToolbarTotalH + TB_MARGIN
                /\ sel_y - TB_MARGIN - ToolbarTotalH >= 0
             THEN Some(<<ToolbarCenteredX(sel_x, sel_w, sw), sel_y - TB_MARGIN - ToolbarTotalH,
                         ToolbarTotalW, ToolbarTotalH>>)
        ELSE LET bx0 == sel_x + sel_w - ToolbarTotalW - INSET_PAD
                 by0 == sel_y + sel_h - ToolbarTotalH - INSET_PAD
                 bx1 == IF bx0 < 0 THEN 0 ELSE bx0
                 by1 == IF by0 < 0 THEN 0 ELSE by0
                 max_x == sw - ToolbarTotalW
                 max_y == sh - ToolbarTotalH
                 bx2 == IF bx1 > max_x THEN Max2(max_x, 0) ELSE bx1
                 by2 == IF by1 > max_y THEN Max2(max_y, 0) ELSE by1
             IN  Some(<<bx2, by2, ToolbarTotalW, ToolbarTotalH>>)

\* draw_toolbar: the rectangle (bx, by, w, h) handed to draw_button for each
\* button index
draw_toolbar(x, y, w, h) ==
    [idx \in 0..(TB_BUTTONS - 1) |->
        <<x + TB_BTN_PAD_X + idx * (TB_BTN_W + TB_BTN_GAP),
          (y + TruncDiv(h, 2)) - TruncDiv(TB_BTN_H, 2),
          TB_BTN_W, TB_BTN_H>>]

\* hit_test_toolbar_button with slots that extend over the gap that follows
hit_test_toolbar_button_NoGap(px, py, bar_x, bar_y, bar_w, bar_h) ==
    IF px < bar_x \/ py < bar_y \/ px >= bar_x + bar_w \/ py >= bar_y + bar_h THEN None
    ELSE LET slot(idx) == bar_x + TB_BTN_PAD_X + idx * (TB_BTN_W + TB_BTN_GAP)
             hits == {idx \in 0..(TB_BUTTONS - 1) :
                        /\ px >= slot(idx) /\ px < slot(idx) + TB_BTN_W + TB_BTN_GAP
                        /\ py >= bar_y /\ py < bar_y + bar_h}
         IN  IF hits = {} THEN None
             ELSE Some(CHOOSE i \in hits : \A j \in hits : i <= j)

\* Option<usize>: the first slot containing the point
hit_test_toolbar_button(px, py, bar_x, bar_y, bar_w, bar_h) ==
    IF px < bar_x \/ py < bar_y \/ px >= bar_x + bar_w \/ py >= bar_y + bar_h THEN None
    ELSE LET slot(idx) == bar_x + TB_BTN_PAD_X + idx * (TB_BTN_W + TB_BTN_GAP)
             hits == {idx \in 0..(TB_BUTTONS - 1) :
                        /\ px >= slot(idx) /\ px < slot(idx) + TB_BTN_W
                        /\ py >= bar_y /\ py < bar_y + bar_h}
         IN  IF hits = {} THEN None
             ELSE Some(CHOOSE i \in hits : \A j \in hits : i <= j)

\* ------------------------------------------------------------------------
\* state.rs: OverlayState
\*
\* An overlay is a record with the fields of struct OverlayState.  The pixel
\* buffer of a capture is identified by the number of the capture it came
\* from (img); inner_size is the size the windowing layer reports for the
\* overlay window.  A handler is an operator from the overlay (and the
\* event's payload) to a result record: the overlay afterwards, the
\* OverlayAction returned, the toolbar button executed (-1 for none) and
\* whether the handler panicked.  dbg is TRUE for a build with overflow
\* checks (debug), FALSE for a build in which integer arithmetic wraps.
\* ------------------------------------------------------------------------
OverlayMode ==
    {"Idle", "Dragging", "MovingSelection", "Resizing", "IdleWithSelection", "Annotating"}

ActionNone ==
    [kind |-> "None", png |-> <<>>, width |-> 0, height |-> 0, screen_x |-> 0, screen_y |-> 0]
ActionCanceled == [ActionNone EXCEPT !.kind = "Canceled"]
ActionPasteSelection(png, w, h, sx, sy) ==
    [kind |-> "PasteSelection", png |-> png, width |-> w, height |-> h,
     screen_x |-> sx, screen_y |-> sy]

Result(o, act, btn) == [o |-> o, action |-> act, btn |-> btn, panic |-> FALSE]
Panic(o) == [o |-> o, action |-> ActionNone, btn |-> -1, panic |-> TRUE]

\* OverlayState::new
NewOverlay(size) ==
    [visible |-> FALSE, screenshot |-> None, origin |-> <<0, 0>>, dim_cache |-> None,
     drag_start |-> None, last_cursor |-> <<0, 0>>, selection |-> None,
     move_offset |-> None, mode |-> "Idle", resize_handle |-> None,
     toolbar_rect |-> None, toolbar_hover |-> None, inner_size |-> size]

\* build_caches: the dimmed buffer is derived from the stored image
build_caches(o) ==
    IF IsSome(o.screenshot)
    THEN [o EXCEPT !.dim_cache = Some(Unwrap(o.screenshot)[3])]
    ELSE [o EXCEPT !.dim_cache = None]

\* show_with_image that does not build the dimmed cache
show_with_image_NoCache(o, w, h, img, origin) ==
    [o EXCEPT !.screenshot = Some(<<w, h, img>>),
              !.origin = origin,
              !.selection = None,
              !.drag_start = None,
              !.visible = TRUE,
              !.mode = "Idle"]

\* show_with_image that keeps the mode it finds
show_with_image_KeepsMode(o, w, h, img, origin) ==
    build_caches([o EXCEPT !.screenshot = Some(<<w, h, img>>),
                           !.origin = origin,
                           !.selection = None,
                           !.drag_start = None,
                           !.visible = TRUE])

show_with_image(o, w, h, img, origin) ==
    build_caches([o EXCEPT !.screenshot = Some(<<w, h, img>>),
                           !.origin = origin,
                           !.selection = None,
                           !.drag_start = None,
                           !.visible = TRUE,
                           !.mode = "Idle"])

hide(o) ==
    [o EXCEPT !.visible = FALSE,
              !.screenshot = None,
              !.selection = None,
              !.drag_start = None,
              !.dim_cache = None]

\* Option<Vec<u8>>: the encoded crop, identified by the image it was cut from
\* and by the first column, first row, number of columns and number of rows
take_selection_png(o) ==
    IF ~IsSome(o.screenshot) \/ ~IsSome(o.selection) THEN None
    ELSE LET sw == Unwrap(o.screenshot)[1]
             sh == Unwrap(o.screenshot)[2]
             img == Unwrap(o.screenshot)[3]
             x == Unwrap(o.selection)[1]
             y == Unwrap(o.selection)[2]
             w == Unwrap(o.selection)[3]
             h == Unwrap(o.selection)[4]
         IN  IF w = 0 \/ h = 0 THEN None
             ELSE IF ULe(sw, x) \/ ULe(sh, y) THEN None
             ELSE Some(<<img, x, y, UMin(w, SubU32(sw, x)), UMin(h, SubU32(sh, y))>>)

\* take_selection_png on the bytes of the capture (4 per pixel, row-major):
\* the image handed to the PNG encoder, as (width, height, bytes), or None;
\* panicked when a row's slice lies outside the buffer.  Rows are
\* located with the width of the crop.
take_selection_rows_CropStride(sw, sh, buf, selection) ==
    IF ~IsSome(selection) THEN [panicked |-> FALSE, png |-> None]
    ELSE
    LET x == Unwrap(selection)[1]
        y == Unwrap(selection)[2]
        w == Unwrap(selection)[3]
        h == Unwrap(selection)[4]
        rw == UMin(w, SubU32(sw, x))
        rh == UMin(h, SubU32(sh, y))
        start(row) == (((y + row) * rw) + x) * 4
        end(row) == start(row) + rw * 4
        RECURSIVE rows(_)
        rows(row) == IF row >= rh THEN <<>>
                     ELSE SubSeq(buf, start(row) + 1, end(row)) \o rows(row + 1)
    IN  IF w = 0 \/ h = 0 THEN [panicked |-> FALSE, png |-> None]
        ELSE IF ULe(sw, x) \/ ULe(sh, y) THEN [panicked |-> FALSE, png |-> None]
        ELSE IF \E row \in 0..(rh - 1) : end(row) > Len(buf)
             THEN [panicked |-> TRUE, png |-> None]
        ELSE IF Len(rows(0)) < rw * rh * 4 THEN [panicked |-> FALSE, png |-> None]
        ELSE [panicked |-> FALSE, png |-> Some(<<rw, rh, rows(0)>>)]

\* take_selection_png on the bytes of the capture (4 per pixel, row-major):
\* the image handed to the PNG encoder, as (width, height, bytes), or None;
\* panicked when a row's slice lies outside the buffer.
take_selection_rows(sw, sh, buf, selection) ==
    IF ~IsSome(selection) THEN [panicked |-> FALSE, png |-> None]
    ELSE
    LET x == Unwrap(selection)[1]
        y == Unwrap(selection)[2]
        w == Unwrap(selection)[3]
        h == Unwrap(selection)[4]
        rw == UMin(w, SubU32(sw, x))
        rh == UMin(h, SubU32(sh, y))
        start(row) == (((y + row) * sw) + x) * 4
        end(row) == start(row) + rw * 4
        RECURSIVE rows(_)
        rows(row) == IF row >= rh THEN <<>>
                     ELSE SubSeq(buf, start(row) + 1, end(row)) \o rows(row + 1)
    IN  IF w = 0 \/ h = 0 THEN [panicked |-> FALSE, png |-> None]
        ELSE IF ULe(sw, x) \/ ULe(sh, y) THEN [panicked |-> FALSE, png |-> None]
        ELSE IF \E row \in 0..(rh - 1) : end(row) > Len(buf)
             THEN [panicked |-> TRUE, png |-> None]
        ELSE IF Len(rows(0)) < rw * rh * 4 THEN [panicked |-> FALSE, png |-> None]
        ELSE [panicked |-> FALSE, png |-> Some(<<rw, rh, rows(0)>>)]

\* execute_toolbar_button with Pin reporting the capture-local position
execute_toolbar_button_PinLocal(o, index) ==
    CASE index = 0 -> Result(hide(o), ActionCanceled, index)
      [] index = 1 ->
            LET png == take_selection_png(o)
            IN  IF IsSome(png)
                THEN LET sel == Unwrap(o.selection)
                     IN  Result(hide(o),
                                ActionPasteSelection(Unwrap(png), sel[3], sel[4],
                                                     U32AsI32(sel[1]), U32AsI32(sel[2])),
                                index)
                ELSE Result(o, ActionNone, index)
      [] index = 4 -> Result([o EXCEPT !.mode = "Annotating"], ActionNone, index)
      [] OTHER -> Result(o, ActionNone, index)

\* execute_toolbar_button with Save and Copy closing the overlay as Pin does
execute_toolbar_button_SaveCopyHide(o, index) ==
    CASE index = 0 -> Result(hide(o), ActionCanceled, index)
      [] index = 1 ->
            LET png == take_selection_png(o)
            IN  IF IsSome(png)
                THEN LET sel == Unwrap(o.selection)
                     IN  Result(hide(o),
                                ActionPasteSelection(Unwrap(png), sel[3], sel[4],
                                                     o.origin[1] + U32AsI32(sel[1]),
                                                     o.origin[2] + U32AsI32(sel[2])),
                                index)
                ELSE Result(o, ActionNone, index)
      [] index \in {2, 3} -> Result(hide(o), ActionNone, index)
      [] index = 4 -> Result([o EXCEPT !.mode = "Annotating"], ActionNone, index)
      [] OTHER -> Result(o, ActionNone, index)

execute_toolbar_button(o, index) ==
    CASE index = 0 -> Result(hide(o), ActionCanceled, index)
      [] index = 1 ->
            LET png == take_selection_png(o)
            IN  IF IsSome(png)
                THEN LET sel == Unwrap(o.selection)
                     IN  Result(hide(o),
                                ActionPasteSelection(Unwrap(png), sel[3], sel[4],
                                                     o.origin[1] + U32AsI32(sel[1]),
                                                     o.origin[2] + U32AsI32(sel[2])),
                                index)
                ELSE Result(o, ActionNone, index)
      [] index = 2 -> Result(o, ActionNone, index)
      [] index = 3 -> Result(o, ActionNone, index)
      [] index = 4 -> Result([o EXCEPT !.mode = "Annotating"], ActionNone, index)
      [] OTHER -> Result(o, ActionNone, index)

\* point-in-rectangle test of the press and hover branches; the conjunction
\* short-circuits, so x + w and y + h are only added when reached
InsideSelection(cx, cy, x, y, w, h) ==
    /\ cx >= U32AsI32(x)
    /\ cy >= U32AsI32(y)
    /\ cx < U32AsI32(AddU32(x, w))
    /\ cy < U32AsI32(AddU32(y, h))
InsideSelectionOverflows(cx, cy, x, y, w, h) ==
    /\ cx >= U32AsI32(x)
    /\ cy >= U32AsI32(y)
    /\ \/ AddU32Overflows(x, w)
       \/ cx < U32AsI32(AddU32(x, w)) /\ AddU32Overflows(y, h)

\* LeftPressed testing the selection body before the handles
LeftPressed_BodyFirst(o, dbg) ==
    CASE o.mode = "Idle" ->
            Result([o EXCEPT !.drag_start = Some(o.last_cursor),
                             !.selection = None,
                             !.mode = "Dragging"], ActionNone, -1)
      [] o.mode = "IdleWithSelection" ->
            IF ~IsSome(o.selection) THEN Result(o, ActionNone, -1)
            ELSE LET sel == Unwrap(o.selection)
                     cx == F64AsI32(o.last_cursor[1])
                     cy == F64AsI32(o.last_cursor[2])
                     handle == hit_test_handle(cx, cy, sel[1], sel[2], sel[3], sel[4])
                 IN  IF InsideSelection(cx, cy, sel[1], sel[2], sel[3], sel[4])
                     THEN Result([o EXCEPT !.move_offset =
                                               Some(<<cx - U32AsI32(sel[1]), cy - U32AsI32(sel[2])>>),
                                           !.mode = "MovingSelection"], ActionNone, -1)
                     ELSE IF IsSome(handle)
                     THEN Result([o EXCEPT !.resize_handle = handle,
                                           !.mode = "Resizing"], ActionNone, -1)
                     ELSE Result(o, ActionNone, -1)
      [] OTHER -> Result(o, ActionNone, -1)

\* MouseInput { Pressed, Left }
LeftPressed(o, dbg) ==
    CASE o.mode = "Idle" ->
            Result([o EXCEPT !.drag_start = Some(o.last_cursor),
                             !.selection = None,
                             !.mode = "Dragging"], ActionNone, -1)
      [] o.mode = "IdleWithSelection" ->
            IF ~IsSome(o.selection) THEN Result(o, ActionNone, -1)
            ELSE LET sel == Unwrap(o.selection)
                     cx == F64AsI32(o.last_cursor[1])
                     cy == F64AsI32(o.last_cursor[2])
                     handle == hit_test_handle(cx, cy, sel[1], sel[2], sel[3], sel[4])
                 IN  IF IsSome(handle)
                     THEN Result([o EXCEPT !.resize_handle = handle,
                                           !.mode = "Resizing"], ActionNone, -1)
                     ELSE IF dbg /\ InsideSelectionOverflows(cx, cy, sel[1], sel[2], sel[3], sel[4])
                     THEN Panic(o)
                     ELSE IF InsideSelection(cx, cy, sel[1], sel[2], sel[3], sel[4])
                     THEN Result([o EXCEPT !.move_offset =
                                               Some(<<cx - U32AsI32(sel[1]), cy - U32AsI32(sel[2])>>),
                                           !.mode = "MovingSelection"], ActionNone, -1)
                     ELSE Result(o, ActionNone, -1)
      [] OTHER -> Result(o, ActionNone, -1)

\* ReleaseToolbar without the test of the mode
ReleaseToolbar_AnyMode(o) ==
    IF IsSome(o.toolbar_rect)
    THEN LET bar == Unwrap(o.toolbar_rect)
             btn == hit_test_toolbar_button(F64AsI32(o.last_cursor[1]), F64AsI32(o.last_cursor[2]),
                                            bar[1], bar[2], bar[3], bar[4])
         IN  IF IsSome(btn) THEN execute_toolbar_button(o, Unwrap(btn))
             ELSE Result(o, ActionNone, -1)
    ELSE Result(o, ActionNone, -1)

\* first half of the release handler: the toolbar hit test
ReleaseToolbar(o) ==
    IF o.mode = "IdleWithSelection" /\ IsSome(o.toolbar_rect)
    THEN LET bar == Unwrap(o.toolbar_rect)
             btn == hit_test_toolbar_button(F64AsI32(o.last_cursor[1]), F64AsI32(o.last_cursor[2]),
                                            bar[1], bar[2], bar[3], bar[4])
         IN  IF IsSome(btn) THEN execute_toolbar_button(o, Unwrap(btn))
             ELSE Result(o, ActionNone, -1)
    ELSE Result(o, ActionNone, -1)

\* ReleaseMode with the Dragging arm always keeping the selection mode
ReleaseMode_DragAlwaysSelects(o) ==
    CASE o.mode = "Dragging" ->
            [o EXCEPT !.drag_start = None, !.mode = "IdleWithSelection"]
      [] o.mode = "MovingSelection" ->
            [o EXCEPT !.move_offset = None, !.mode = "IdleWithSelection"]
      [] o.mode = "Resizing" ->
            [o EXCEPT !.resize_handle = None, !.mode = "IdleWithSelection"]
      [] OTHER -> o

\* second half of the release handler: leaving Dragging / Moving / Resizing
ReleaseMode(o) ==
    CASE o.mode = "Dragging" ->
            [o EXCEPT !.drag_start = None,
                      !.mode = IF IsSome(o.selection) THEN "IdleWithSelection" ELSE "Idle"]
      [] o.mode = "MovingSelection" ->
            [o EXCEPT !.move_offset = None, !.mode = "IdleWithSelection"]
      [] o.mode = "Resizing" ->
            [o EXCEPT !.resize_handle = None, !.mode = "IdleWithSelection"]
      [] OTHER -> o

\* MouseInput { Released, Left }
LeftReleased(o) ==
    LET r == ReleaseToolbar(o)
    IN  [r EXCEPT !.o = ReleaseMode(r.o)]

\* RightPressed hiding the overlay in IdleWithSelection as it does in Idle
RightPressed_AlwaysHides(o) ==
    CASE o.mode \in {"Idle", "IdleWithSelection"} -> Result(hide(o), ActionNone, -1)
      [] OTHER -> Result(o, ActionNone, -1)

\* RightPressed clearing the selection in Annotating as in IdleWithSelection
RightPressed_ClearsInAnnotating(o) ==
    CASE o.mode = "Idle" -> Result(hide(o), ActionNone, -1)
      [] o.mode \in {"IdleWithSelection", "Annotating"} ->
            Result([o EXCEPT !.selection = None, !.mode = "Idle"], ActionNone, -1)
      [] OTHER -> Result(o, ActionNone, -1)

\* MouseInput { Pressed, Right }
RightPressed(o) ==
    CASE o.mode = "Idle" -> Result(hide(o), ActionNone, -1)
      [] o.mode = "IdleWithSelection" ->
            Result([o EXCEPT !.selection = None, !.mode = "Idle"], ActionNone, -1)
      [] OTHER -> Result(o, ActionNone, -1)

\* MouseInput { Released, Right }
RightReleased(o) == Result(o, ActionNone, -1)

\* EscapePressed leaving the overlay alone while a gesture is in progress
EscapePressed_NotInGesture(o) ==
    IF o.mode \in {"Dragging", "MovingSelection", "Resizing"}
    THEN Result(o, ActionNone, -1)
    ELSE Result(hide(o), ActionNone, -1)

\* KeyboardInput { Escape, Pressed }
EscapePressed(o) == Result(hide(o), ActionNone, -1)

\* CursorMoved in Dragging: the rectangle spanned by drag_start and the cursor
DraggingMove(o, pos) ==
    IF ~IsSome(o.drag_start) THEN o
    ELSE LET sx == Unwrap(o.drag_start)[1]
             sy == Unwrap(o.drag_start)[2]
             x0 == Min2(sx, pos[1])
             y0 == Min2(sy, pos[2])
             w == Abs(sx - pos[1])
             h == Abs(sy - pos[2])
         IN  [o EXCEPT !.selection =
                  Some(<<F64AsU32(x0), F64AsU32(y0), F64AsU32(w), F64AsU32(h)>>)]

\* CursorMoved in MovingSelection: translate, clamp the origin to the capture
MovingSelectionMove(o, pos) ==
    IF ~IsSome(o.screenshot) \/ ~IsSome(o.selection) \/ ~IsSome(o.move_offset) THEN o
    ELSE LET sw == Unwrap(o.screenshot)[1]
             sh == Unwrap(o.screenshot)[2]
             w == Unwrap(o.selection)[3]
             h == Unwrap(o.selection)[4]
             ox == Unwrap(o.move_offset)[1]
             oy == Unwrap(o.move_offset)[2]
             cx == F64AsI32(pos[1])
             cy == F64AsI32(pos[2])
             nx0 == IF cx - ox < 0 THEN 0 ELSE cx - ox
             ny0 == IF cy - oy < 0 THEN 0 ELSE cy - oy
             max_x == Max2(U32AsI32(sw) - U32AsI32(w), 0)
             max_y == Max2(U32AsI32(sh) - U32AsI32(h), 0)
             new_x == IF nx0 > max_x THEN max_x ELSE nx0
             new_y == IF ny0 > max_y THEN max_y ELSE ny0
         IN  [o EXCEPT !.selection = Some(<<I32AsU32(new_x), I32AsU32(new_y), w, h>>)]

\* which edge of each axis a handle moves: "lo" (left/top), "hi" (right/bottom), "none"
HandleEdgeX(handle) ==
    CASE handle \in {"TopLeft", "BottomLeft", "Left"} -> "lo"
      [] handle \in {"TopRight", "BottomRight", "Right"} -> "hi"
      [] OTHER -> "none"
HandleEdgeY(handle) ==
    CASE handle \in {"TopLeft", "Top", "TopRight"} -> "lo"
      [] handle \in {"BottomLeft", "Bottom", "BottomRight"} -> "hi"
      [] OTHER -> "none"

\* One axis of the match on the handle: s, len are the stored origin and
\* extent (u32), c the cursor (i32), cap the capture extent (u32).  Gives
\* the origin and extent (i32) before the final clamp.
\*   "lo":  n = c.clamp(0, (s + len) as i32 - MIN); len = (s + len - n).max(MIN); s = n
\*   "hi":  n2 = c.clamp(s as i32 + MIN, cap as i32 - 1); len = (n2 - s + 1).max(MIN)
ResizeAxis(edge, s, len, c, cap) ==
    CASE edge = "lo" ->
            LET n == Clamp(c, 0, U32AsI32(AddU32(s, len)) - MIN)
            IN  <<n, Max2(U32AsI32(s) + U32AsI32(len) - n, MIN)>>
      [] edge = "hi" ->
            LET n2 == Clamp(c, U32AsI32(s) + MIN, U32AsI32(cap) - 1)
            IN  <<U32AsI32(s), Max2(n2 - U32AsI32(s) + 1, MIN)>>
      [] OTHER -> <<U32AsI32(s), U32AsI32(len)>>

\* the axis panics: inverted clamp bounds, or (debug) s + len overflowing u32
ResizeAxisPanics(edge, s, len, cap, dbg) ==
    CASE edge = "lo" ->
            \/ dbg /\ AddU32Overflows(s, len)
            \/ ClampPanics(0, U32AsI32(AddU32(s, len)) - MIN)
      [] edge = "hi" -> ClampPanics(U32AsI32(s) + MIN, U32AsI32(cap) - 1)
      [] OTHER -> FALSE

\* final clamp of one axis (lines 332-343): origin >= 0, origin + extent <= cap
ResizeFinalClamp(a, cap) ==
    LET s == IF a[1] < 0 THEN 0 ELSE a[1]
        len == IF s + a[2] > U32AsI32(cap) THEN U32AsI32(cap) - s ELSE a[2]
    IN  <<s, len>>

\* CursorMoved in Resizing
ResizingMove(o, pos, dbg) ==
    IF ~IsSome(o.screenshot) \/ ~IsSome(o.selection) \/ ~IsSome(o.resize_handle)
    THEN Result(o, ActionNone, -1)
    ELSE LET sw == Unwrap(o.screenshot)[1]
             sh == Unwrap(o.screenshot)[2]
             sel == Unwrap(o.selection)
             handle == Unwrap(o.resize_handle)
             cx == F64AsI32(pos[1])
             cy == F64AsI32(pos[2])
             ex == HandleEdgeX(handle)
             ey == HandleEdgeY(handle)
         IN  IF ResizeAxisPanics(ex, sel[1], sel[3], sw, dbg)
                \/ ResizeAxisPanics(ey, sel[2], sel[4], sh, dbg)
             THEN Panic(o)
             ELSE LET ax == ResizeFinalClamp(ResizeAxis(ex, sel[1], sel[3], cx, sw), sw)
                      ay == ResizeFinalClamp(ResizeAxis(ey, sel[2], sel[4], cy, sh), sh)
                  IN  Result([o EXCEPT !.selection =
                                 Some(<<I32AsU32(ax[1]), I32AsU32(ay[1]),
                                        I32AsU32(ax[2]), I32AsU32(ay[2])>>)],
                             ActionNone, -1)

\* CursorMoved in IdleWithSelection: only the hovered toolbar button is state
\* (the cursor icon is not modelled)
HoverMove(o, pos, dbg) ==
    IF ~IsSome(o.selection) THEN Result(o, ActionNone, -1)
    ELSE LET sel == Unwrap(o.selection)
             cx == F64AsI32(pos[1])
             cy == F64AsI32(pos[2])
             btn == IF IsSome(o.toolbar_rect)
                    THEN LET bar == Unwrap(o.toolbar_rect)
                         IN  hit_test_toolbar_button(cx, cy, bar[1], bar[2], bar[3], bar[4])
                    ELSE None
         IN  IF ~IsSome(btn)
                /\ ~IsSome(hit_test_handle(cx, cy, sel[1], sel[2], sel[3], sel[4]))
                /\ dbg /\ InsideSelectionOverflows(cx, cy, sel[1], sel[2], sel[3], sel[4])
             THEN Panic(o)
             ELSE Result([o EXCEPT !.toolbar_hover = btn], ActionNone, -1)

\* CursorMoved { position }
CursorMoved(o, pos, dbg) ==
    LET o1 == [o EXCEPT !.last_cursor = pos]
    IN  CASE o.mode = "Dragging" -> Result(DraggingMove(o1, pos), ActionNone, -1)
          [] o.mode = "MovingSelection" -> Result(MovingSelectionMove(o1, pos), ActionNone, -1)
          [] o.mode = "Resizing" -> ResizingMove(o1, pos, dbg)
          [] o.mode = "IdleWithSelection" -> HoverMove(o1, pos, dbg)
          [] OTHER -> Result(o1, ActionNone, -1)

\* handle_event without the test of `visible`
handle_event_NoVisibleTest(o, kind, pos, dbg) ==
    CASE kind = "LeftPressed" -> LeftPressed(o, dbg)
      [] kind = "LeftReleased" -> LeftReleased(o)
      [] kind = "RightPressed" -> RightPressed(o)
      [] kind = "RightReleased" -> RightReleased(o)
      [] kind = "CursorMoved" -> CursorMoved(o, pos, dbg)
      [] kind = "EscapePressed" -> EscapePressed(o)
      [] OTHER -> Result(o, ActionNone, -1)

\* handle_event: nothing happens while the overlay is hidden
handle_event(o, kind, pos, dbg) ==
    IF ~o.visible THEN Result(o, ActionNone, -1)
    ELSE CASE kind = "LeftPressed" -> LeftPressed(o, dbg)
           [] kind = "LeftReleased" -> LeftReleased(o)
           [] kind = "RightPressed" -> RightPressed(o)
           [] kind = "RightReleased" -> RightReleased(o)
           [] kind = "CursorMoved" -> CursorMoved(o, pos, dbg)
           [] kind = "EscapePressed" -> EscapePressed(o)
           [] OTHER -> Result(o, ActionNone, -1)

\* redraw, lines 450-466: the bright copy of the selection reads the
\* screenshot and writes the frame; an index past either buffer panics, and
\* so does (debug) an unsigned subtraction with the larger subtrahend
BrightCopyPanics(x, y, w, h, sw, sh, width, height, dbg) ==
    LET copy_w == UMin(UMin(w, SubU32(sw, x)), SubU32(width, x))
        copy_h == UMin(UMin(h, SubU32(sh, y)), SubU32(height, y))
    IN  \/ dbg /\ (SubU32Overflows(sw, x) \/ SubU32Overflows(width, x))
        \/ dbg /\ (SubU32Overflows(sh, y) \/ SubU32Overflows(height, y))
        \/ /\ copy_w # 0 /\ copy_h # 0
           /\ \/ copy_w < 0 \/ copy_h < 0
              \/ (y + copy_h - 1) * sw + x + copy_w - 1 >= sw * sh
              \/ (y + copy_h - 1) * width + x + copy_w - 1 >= width * height

\* redraw panics (lines 440-466); the border, handle and toolbar drawing that
\* follows clips every pixel to the frame
RedrawPanics(o, dbg) ==
    /\ o.visible /\ IsSome(o.screenshot) /\ IsSome(o.selection)
    /\ LET sel == Unwrap(o.selection)
           sw == Unwrap(o.screenshot)[1]
           sh == Unwrap(o.screenshot)[2]
           width == Max2(o.inner_size[1], 1)
           height == Max2(o.inner_size[2], 1)
       IN  \/ dbg /\ (AddU32Overflows(sel[1], sel[3]) \/ AddU32Overflows(sel[2], sel[4]))
           \/ /\ sel[3] # 0 /\ sel[4] # 0
              /\ o.mode \in {"Dragging", "IdleWithSelection", "MovingSelection", "Resizing"}
              /\ BrightCopyPanics(sel[1], sel[2], sel[3], sel[4], sw, sh, width, height, dbg)

\* redraw: the only overlay state it writes is toolbar_rect, and only when
\* a selection with w > 0 and h > 0 is stored
redraw(o, dbg) ==
    IF ~o.visible \/ ~IsSome(o.screenshot) \/ ~IsSome(o.selection) THEN Result(o, ActionNone, -1)
    ELSE IF RedrawPanics(o, dbg) THEN Panic(o)
    ELSE LET sel == Unwrap(o.selection)
             sw == Unwrap(o.screenshot)[1]
             sh == Unwrap(o.screenshot)[2]
         IN  IF sel[3] = 0 \/ sel[4] = 0 THEN Result(o, ActionNone, -1)
             ELSE IF o.mode = "IdleWithSelection"
             THEN Result([o EXCEPT !.toolbar_rect =
                              compute_toolbar_rect(sel[1], sel[2], sel[3], sel[4], sw, sh)],
                         ActionNone, -1)
             ELSE Result([o EXCEPT !.toolbar_rect = None], ActionNone, -1)

\* ------------------------------------------------------------------------
\* paste_window.rs
\* ------------------------------------------------------------------------
\* new_from_png placing the window itself, not the image, at desired_pos
new_from_png_NoOffset(id, png, desired_pos) ==
    [id |-> id,
     width |-> png[4], height |-> png[5],
     total_w |-> png[4] + margin * 2, total_h |-> png[5] + margin * 2,
     outer_position |-> desired_pos,
     dragging |-> FALSE, drag_offset |-> <<0, 0>>, focused |-> TRUE,
     last_local_cursor |-> <<0, 0>>, click_guard |-> "Idle",
     pending_destroy |-> FALSE, image |-> png]

\* PasteWindow::new_from_png on a decodable PNG: png = <<img, x, y, cols, rows>>
new_from_png(id, png, desired_pos) ==
    [id |-> id,
     width |-> png[4], height |-> png[5],
     total_w |-> png[4] + margin * 2, total_h |-> png[5] + margin * 2,
     outer_position |-> <<desired_pos[1] - margin, desired_pos[2] - margin>>,
     dragging |-> FALSE, drag_offset |-> <<0, 0>>, focused |-> TRUE,
     last_local_cursor |-> <<0, 0>>, click_guard |-> "Idle",
     pending_destroy |-> FALSE, image |-> png]

\* show_context_menu (paste_window.rs 244-265): without a Win32 window
\* handle it returns before the menu is shown
show_context_menu(pw, handle_ok) ==
    IF handle_ok THEN [pw EXCEPT !.click_guard = "SkipNext"] ELSE pw

\* handle_event subtracting the cursor's present local position, not the
\* one recorded at the press
PasteWindow_handle_event_LiveOffset(pw, kind, pos, global, f, handle_ok) ==
    CASE kind = "CursorMoved" ->
            LET pw1 == [pw EXCEPT !.last_local_cursor = pos]
            IN  IF pw1.dragging /\ IsSome(global)
                THEN [pw1 EXCEPT !.outer_position =
                         <<Unwrap(global)[1] - F64AsI32(pos[1]),
                           Unwrap(global)[2] - F64AsI32(pos[2])>>]
                ELSE pw1
      [] kind = "LeftPressed" ->
            IF pw.click_guard = "SkipNext" THEN [pw EXCEPT !.click_guard = "Idle"]
            ELSE [pw EXCEPT !.dragging = TRUE,
                            !.focused = TRUE,
                            !.drag_offset = <<F64AsI32(pw.last_local_cursor[1]),
                                              F64AsI32(pw.last_local_cursor[2])>>]
      [] kind = "LeftReleased" -> [pw EXCEPT !.dragging = FALSE]
      [] kind = "RightReleased" -> show_context_menu(pw, handle_ok)
      [] kind = "EscapePressed" -> [pw EXCEPT !.pending_destroy = TRUE]
      [] kind = "Focused" -> [pw EXCEPT !.focused = f]
      [] OTHER -> pw

\* handle_event whose guarded left press leaves the guard set
PasteWindow_handle_event_GuardSticks(pw, kind, pos, global, f, handle_ok) ==
    CASE kind = "CursorMoved" ->
            LET pw1 == [pw EXCEPT !.last_local_cursor = pos]
            IN  IF pw1.dragging /\ IsSome(global)
                THEN [pw1 EXCEPT !.outer_position =
                         <<Unwrap(global)[1] - pw1.drag_offset[1],
                           Unwrap(global)[2] - pw1.drag_offset[2]>>]
                ELSE pw1
      [] kind = "LeftPressed" ->
            IF pw.click_guard = "SkipNext" THEN pw
            ELSE [pw EXCEPT !.dragging = TRUE,
                            !.focused = TRUE,
                            !.drag_offset = <<F64AsI32(pw.last_local_cursor[1]),
                                              F64AsI32(pw.last_local_cursor[2])>>]
      [] kind = "LeftReleased" -> [pw EXCEPT !.dragging = FALSE]
      [] kind = "RightReleased" -> show_context_menu(pw, handle_ok)
      [] kind = "EscapePressed" -> [pw EXCEPT !.pending_destroy = TRUE]
      [] kind = "Focused" -> [pw EXCEPT !.focused = f]
      [] OTHER -> pw

\* PasteWindow::handle_event (152-211).  pos: the position of a CursorMoved
\* event, in 1/SubPixel pixels; global: what global_cursor_position()
\* returns (None or the cursor on the screen); f: the flag of a Focused
\* event; handle_ok: the window handle is available
PasteWindow_handle_event(pw, kind, pos, global, f, handle_ok) ==
    CASE kind = "CursorMoved" ->
            LET pw1 == [pw EXCEPT !.last_local_cursor = pos]
            IN  IF pw1.dragging /\ IsSome(global)
                THEN [pw1 EXCEPT !.outer_position =
                         <<Unwrap(global)[1] - pw1.drag_offset[1],
                           Unwrap(global)[2] - pw1.drag_offset[2]>>]
                ELSE pw1
      [] kind = "LeftPressed" ->
            IF pw.click_guard = "SkipNext" THEN [pw EXCEPT !.click_guard = "Idle"]
            ELSE [pw EXCEPT !.dragging = TRUE,
                            !.focused = TRUE,
                            !.drag_offset = <<F64AsI32(pw.last_local_cursor[1]),
                                              F64AsI32(pw.last_local_cursor[2])>>]
      [] kind = "LeftReleased" -> [pw EXCEPT !.dragging = FALSE]
      [] kind = "RightReleased" -> show_context_menu(pw, handle_ok)
      [] kind = "EscapePressed" -> [pw EXCEPT !.pending_destroy = TRUE]
      [] kind = "Focused" -> [pw EXCEPT !.focused = f]
      [] OTHER -> pw

\* ------------------------------------------------------------------------
\* main.rs: the controller, during one capture session
\* ------------------------------------------------------------------------
VARIABLES
    overlay,          \* the OverlayState
    paste_windows,    \* Vec<PasteWindow>
    next_window_id,   \* identity the windowing layer gives the next window
    crashed,          \* a handler panicked: the process is gone
    moves,            \* number of cursor moves the visible overlay has handled
    last,             \* the last event handled (a window event dispatched to
                      \* the overlay, or AboutToWait), the mode and visibility
                      \* it found, the OverlayAction returned, the toolbar
                      \* button executed (-1: none), the number of hotkey
                      \* notifications polled, the window the event was for
                      \* and the number of windows the sweep destroyed
    call,             \* a function of the program applied on its own: its
                      \* name and arguments (NoCall while the controller runs)
    ret,              \* what that application returned
    overlay_created,  \* main's `overlay` is Some (OverlayState::new succeeded)
    hotkey_rx,        \* notifications waiting in the channel of subscribe_f4
    menu_event_rx,    \* ids of the menu events waiting in MenuEvent::receiver()
    captures,         \* number of screen captures taken so far
    destroyed         \* ids of the windows PasteWindow::destroy has released

vars == <<overlay, paste_windows, next_window_id, crashed, moves, last, call, ret,
          overlay_created, hotkey_rx, menu_event_rx, captures, destroyed>>

\* the state main's loop keeps beside the overlay and the pinned windows
LoopVars == <<overlay_created, hotkey_rx, menu_event_rx, captures, destroyed>>

\* the overlay exists and shows the first capture; nothing is queued
FirstSession ==
    /\ overlay_created = TRUE
    /\ hotkey_rx = 0
    /\ menu_event_rx = <<>>
    /\ captures = 1
    /\ destroyed = {}

NoCall == [fn |-> "none", args |-> <<>>]

\* ov.window.id(): the windowing layer's identity of the overlay's window;
\* the pinned windows get the identities 0, 1, 2, ...
OverlayWindowId == -1

\* Cursor positions delivered by the windowing layer, in 1/SubPixel pixels.
\* A selection dragged from the initial cursor position (0,0) to the first
\* or second point gets its toolbar below it, one dragged to the third gets
\* it embedded; the next three points lie in the Exit, Pin and Annotate slot
\* of those toolbars; the last lies right of and above the capture.
CursorPoints ==
    { <<(W - 10) * SubPixel, 2 * SubPixel + 1>>,
      <<(W - 10) * SubPixel, 6 * SubPixel>>,
      <<(W - 10) * SubPixel, (H - 2) * SubPixel>>,
      <<30 * SubPixel, 20 * SubPixel>>,
      <<80 * SubPixel, 20 * SubPixel>>,
      <<240 * SubPixel, 20 * SubPixel>>,
      <<(W + 10) * SubPixel, -(2 * SubPixel + 1)>> }

\* a window pinned by an earlier capture session
EarlierWindow == new_from_png(0, <<0, 3, 4, 5, 6>>, <<3, 4>>)

\* what a capture session starts from: the global origin of the captured
\* monitor and the windows pinned so far
Sessions == { <<<<0, 0>>, <<>>>>, <<<<5, -3>>, <<EarlierWindow>>>> }

NoEvent == [ev |-> "none", pre_mode |-> "Idle", pre_visible |-> FALSE,
            action |-> ActionNone, btn |-> -1, polled |-> 0, window |-> OverlayWindowId, swept |-> 0]

\* the overlay has just been shown with a capture of W x H pixels (main.rs 102-112)
Init ==
    /\ \E s \in Sessions :
         /\ overlay = show_with_image(NewOverlay(<<W, H>>), W, H, 1, s[1])
         /\ paste_windows = s[2]
    /\ next_window_id = 1
    /\ crashed = FALSE
    /\ moves = 0
    /\ last = NoEvent
    /\ call = NoCall
    /\ ret = None
    /\ FirstSession

\* main.rs 185-201: the controller's reaction to the action handle_event returned
DispatchAction(windows, id, act, created) ==
    IF act.kind = "PasteSelection" /\ created
    THEN Append(windows, new_from_png(id, act.png, <<act.screen_x, act.screen_y>>))
    ELSE windows

\* Event::WindowEvent { event, window_id } for the overlay's window
\* (main.rs 182-203): handle_event, then the dispatch of its action.
\* dbg: the build has overflow checks.  created: PasteWindow::new_from_png
\* returned Ok (window, context and surface creation are fallible calls of
\* the windowing layer).
OverlayEvent(kind, pos) ==
    /\ ~crashed
    /\ overlay_created
    /\ UNCHANGED <<call, ret, LoopVars>>
    /\ \E r \in {handle_event(overlay, kind, pos, dbg) : dbg \in BOOLEAN} :
         \E created \in IF r.action.kind = "PasteSelection" THEN BOOLEAN ELSE {TRUE} :
             /\ crashed' = r.panic
             /\ overlay' = r.o
             /\ paste_windows' = DispatchAction(paste_windows, next_window_id, r.action, created)
             /\ next_window_id' = IF r.action.kind = "PasteSelection" /\ created
                                  THEN next_window_id + 1 ELSE next_window_id
             /\ last' = [ev |-> kind, pre_mode |-> overlay.mode, pre_visible |-> overlay.visible,
                         action |-> r.action, btn |-> r.btn, polled |-> 0,
                         window |-> OverlayWindowId, swept |-> 0]

OvLeftPressed ==
    /\ OverlayEvent("LeftPressed", <<0, 0>>)
    /\ UNCHANGED moves

OvLeftReleased ==
    /\ OverlayEvent("LeftReleased", <<0, 0>>)
    /\ UNCHANGED moves

OvRightPressed ==
    /\ OverlayEvent("RightPressed", <<0, 0>>)
    /\ UNCHANGED moves

OvRightReleased ==
    /\ OverlayEvent("RightReleased", <<0, 0>>)
    /\ UNCHANGED moves

OvCursorMoved ==
    /\ moves < MaxMoves
    /\ \E pos \in CursorPoints : OverlayEvent("CursorMoved", pos)
    /\ moves' = IF overlay.visible THEN moves + 1 ELSE moves

OvEscapePressed ==
    /\ OverlayEvent("EscapePressed", <<0, 0>>)
    /\ UNCHANGED moves

\* Event::WindowEvent { RedrawRequested } for the overlay's window (main.rs 133-146)
RedrawRequested ==
    /\ ~crashed
    /\ overlay_created
    /\ \E r \in {redraw(overlay, dbg) : dbg \in BOOLEAN} :
             /\ crashed' = r.panic
             /\ overlay' = r.o
    /\ UNCHANGED <<paste_windows, next_window_id, moves, last, call, ret, LoopVars>>

Next ==
    \/ OvLeftPressed
    \/ OvLeftReleased
    \/ OvRightPressed
    \/ OvRightReleased
    \/ OvCursorMoved
    \/ OvEscapePressed
    \/ RedrawRequested

Spec == Init /\ [][Next]_vars

\* ------------------------------------------------------------------------
\* The same controller, followed from the moment a selection has been
\* dragged and drawn, with cursor positions over every slot of its toolbar
\* ------------------------------------------------------------------------
\* the overlay after the events of a drag from the cursor's place to b and
\* a redraw: left press, CursorMoved(b), left release, RedrawRequested
Dragged(o, b) ==
    LET o1 == handle_event(o, "LeftPressed", b, FALSE).o
        o2 == handle_event(o1, "CursorMoved", b, FALSE).o
        o3 == handle_event(o2, "LeftReleased", b, FALSE).o
    IN  redraw(o3, FALSE).o

\* where the drag from (0,0) ends: the first selection gets its toolbar
\* below it, the second gets it embedded
DragEnds ==
    { <<(W - 10) * SubPixel, 6 * SubPixel>>,
      <<(W - 10) * SubPixel, (H - 2) * SubPixel>> }

\* a point in each of the five slots of both toolbars, and one that is in
\* a gap of the first and in the Exit slot of the second
ToolbarPoints ==
    { <<40 * SubPixel, 20 * SubPixel>>,
      <<67 * SubPixel, 20 * SubPixel>>,
      <<90 * SubPixel, 20 * SubPixel>>,
      <<150 * SubPixel, 20 * SubPixel>>,
      <<200 * SubPixel, 20 * SubPixel>>,
      <<250 * SubPixel, 20 * SubPixel>> }

ToolbarInit ==
    /\ \E s \in Sessions : \E b \in DragEnds :
         /\ overlay = Dragged(show_with_image(NewOverlay(<<W, H>>), W, H, 1, s[1]), b)
         /\ paste_windows = s[2]
    /\ next_window_id = 1
    /\ crashed = FALSE
    /\ moves = 1
    /\ last = [NoEvent EXCEPT !.ev = "LeftReleased", !.pre_mode = "Dragging",
                              !.pre_visible = TRUE]
    /\ call = NoCall
    /\ ret = None
    /\ FirstSession

OvCursorMovedOverToolbar ==
    /\ moves < MaxMoves
    /\ \E pos \in ToolbarPoints : OverlayEvent("CursorMoved", pos)
    /\ moves' = IF overlay.visible THEN moves + 1 ELSE moves

ToolbarNext ==
    \/ OvLeftPressed
    \/ OvLeftReleased
    \/ OvRightPressed
    \/ OvRightReleased
    \/ OvCursorMovedOverToolbar
    \/ OvEscapePressed
    \/ RedrawRequested

SpecToolbar == ToolbarInit /\ [][ToolbarNext]_vars

\* ------------------------------------------------------------------------
\* Functions of the program applied on their own: the arguments are drawn
\* at the start, the one step applies the function
\* ------------------------------------------------------------------------
\* the controller is not running
NoController ==
    /\ overlay = NewOverlay(<<W, H>>)
    /\ paste_windows = <<>>
    /\ next_window_id = 1
    /\ crashed = FALSE
    /\ moves = 0
    /\ last = NoEvent
    /\ overlay_created = FALSE
    /\ hotkey_rx = 0
    /\ menu_event_rx = <<>>
    /\ captures = 0
    /\ destroyed = {}

ControllerVars == <<overlay, paste_windows, next_window_id, crashed, moves, last,
                    overlay_created, hotkey_rx, menu_event_rx, captures, destroyed>>

\* hit_test_handle(cx, cy, x, y, w, h): rectangles of up to MaxSide pixels a
\* side, cursors from one pixel beyond the tolerance around them
HandleRects ==
    { <<x, y, w, h>> : x \in {0, 7}, y \in {3}, w \in 0..MaxSide, h \in 0..MaxSide }

HandleQueries ==
    UNION { { <<cx, cy, r[1], r[2], r[3], r[4]>> :
                cx \in (r[1] - R - 1)..(r[1] + r[3] + R),
                cy \in (r[2] - R - 1)..(r[2] + r[4] + R) } : r \in HandleRects }

HandlesInit ==
    /\ NoController
    /\ \E q \in HandleQueries : call = [fn |-> "hit_test_handle", args |-> q]
    /\ ret = None

ApplyHitTestHandle ==
    /\ call.fn = "hit_test_handle" /\ ret = None
    /\ LET a == call.args
       IN  ret' = Some(hit_test_handle(a[1], a[2], a[3], a[4], a[5], a[6]))
    /\ UNCHANGED <<call, ControllerVars>>

HandlesNext == ApplyHitTestHandle

SpecHandles == HandlesInit /\ [][HandlesNext]_vars

\* ------------------------------------------------------------------------
\* Properties
\* ------------------------------------------------------------------------
\* the rectangle lies inside a capture of sw x sh pixels
RectInCapture(sel, sw, sh) ==
    /\ sel[1] >= 0 /\ sel[2] >= 0 /\ sel[3] >= 0 /\ sel[4] >= 0
    /\ sel[1] + sel[3] <= sw
    /\ sel[2] + sel[4] <= sh

\* the rectangle has a width and a height
RectNonEmpty(sel) == sel[3] > 0 /\ sel[4] > 0

\* C1: whenever a selection is stored, in any mode, it lies inside the
\* capture: x >= 0, y >= 0, x + w <= width, y + h <= height.
C1_SelectionInCapture ==
    IsSome(overlay.selection) => RectInCapture(Unwrap(overlay.selection), W, H)

\* C2: after a cursor move handled in Resizing the selection is at least
\* MIN wide and MIN high and lies inside the capture.
C2_ResizeKeepsMinAndCapture ==
    (/\ ~crashed
     /\ last.ev = "CursorMoved" /\ last.pre_visible /\ last.pre_mode = "Resizing"
     /\ IsSome(overlay.selection))
    => LET sel == Unwrap(overlay.selection)
       IN  sel[3] >= MIN /\ sel[4] >= MIN /\ RectInCapture(sel, W, H)

\* C3: a left release in Dragging leads to IdleWithSelection exactly when
\* the stored selection has w > 0 and h > 0; otherwise the selection is
\* cleared and the mode becomes Idle.
C3_DragReleaseKeepsNonEmptyOnly ==
    [][(overlay.visible /\ overlay.mode = "Dragging" /\ OvLeftReleased)
       => IF IsSome(overlay.selection) /\ RectNonEmpty(Unwrap(overlay.selection))
          THEN overlay'.mode = "IdleWithSelection" /\ overlay'.selection = overlay.selection
          ELSE overlay'.mode = "Idle" /\ overlay'.selection = None]_vars

\* the step is a left release that follows a left press received in Idle,
\* with no window event of the overlay in between
ClickInIdle ==
    /\ last.ev = "LeftPressed" /\ last.pre_visible /\ last.pre_mode = "Idle"
    /\ OvLeftReleased

\* C4 as stated: for a left press in Idle followed by a left release with no
\* cursor move in between, the action emitted for the gesture is Canceled.
C4_ClickInIdleEmitsCanceled ==
    [][ClickInIdle => last'.action.kind = "Canceled"]_vars

\* C4 amended: for a left press in Idle followed by a left release with no
\* cursor move in between, both events return the action None; the mode is
\* back to Idle, no selection is stored and the overlay stays visible.
C4_ClickInIdleEmitsNone ==
    [][ClickInIdle => /\ last.action.kind = "None"
                      /\ last'.action.kind = "None"
                      /\ overlay'.mode = "Idle"
                      /\ overlay'.selection = None
                      /\ overlay'.visible]_vars

\* a click in Idle has just been handled
C4_Witness ==
    /\ last.ev = "LeftReleased" /\ last.pre_visible /\ last.pre_mode = "Dragging"
    /\ last.action.kind = "None"
    /\ overlay.visible /\ overlay.mode = "Idle" /\ overlay.selection = None

\* the overlay is hidden and holds neither selection nor caches
HiddenAndDiscarded ==
    /\ ~overlay.visible
    /\ overlay.selection = None
    /\ overlay.screenshot = None
    /\ overlay.dim_cache = None

\* C5 as stated: a pressed Escape received while the overlay is visible, in
\* any mode, hides the overlay (selection and caches discarded) and the
\* action returned for the event is Canceled.
C5_EscapeHidesAndCancels ==
    (last.ev = "EscapePressed" /\ last.pre_visible)
    => (HiddenAndDiscarded /\ last.action.kind = "Canceled")

\* C5 amended: a pressed Escape received while the overlay is visible, in
\* any mode, hides the overlay (selection and caches discarded) and the
\* action returned for the event is None.
C5_EscapeHidesReturnsNone ==
    (last.ev = "EscapePressed" /\ last.pre_visible)
    => (HiddenAndDiscarded /\ last.action.kind = "None")

\* Escape has just hidden an overlay that was resizing its selection
C5_Witness ==
    /\ last.ev = "EscapePressed" /\ last.pre_visible /\ last.pre_mode = "Resizing"
    /\ HiddenAndDiscarded

\* mode, selection and visibility are left as they were
ModeSelectionVisibleUnchanged ==
    /\ overlay'.mode = overlay.mode
    /\ overlay'.selection = overlay.selection
    /\ overlay'.visible = overlay.visible

\* C6: a right press in Idle hides the overlay; in IdleWithSelection it
\* clears the selection and sets the mode to Idle, the overlay staying
\* visible; in the four other modes, and for any right release, mode,
\* selection and visibility do not change.
C6_RightButton ==
    [][/\ (overlay.visible /\ last'.ev = "RightPressed" /\ OvRightPressed) =>
            CASE overlay.mode = "Idle" -> ~overlay'.visible
              [] overlay.mode = "IdleWithSelection" ->
                    /\ overlay'.visible
                    /\ overlay'.mode = "Idle"
                    /\ overlay'.selection = None
              [] OTHER -> ModeSelectionVisibleUnchanged
       /\ (last'.ev = "RightReleased" /\ OvRightReleased) => ModeSelectionVisibleUnchanged]_vars

\* a right press has just cleared the selection of a visible overlay
C6_Witness ==
    /\ last.ev = "RightPressed" /\ last.pre_visible /\ last.pre_mode = "IdleWithSelection"
    /\ overlay.visible /\ overlay.mode = "Idle" /\ overlay.selection = None

\* the step is a window event of the overlay that executes a toolbar command
ExecutesCommand ==
    /\ last'.btn # -1
    /\ \E kind \in {"LeftPressed", "LeftReleased", "RightPressed", "RightReleased",
                    "CursorMoved", "EscapePressed"} :
         \E pos \in CursorPoints \cup {<<0, 0>>} : OverlayEvent(kind, pos)

\* C7: a toolbar command is executed only by a left release received in
\* IdleWithSelection with the cursor in a button slot of the toolbar; the
\* command is that button's.
C7_CommandOnlyByReleaseOverButton ==
    [][ExecutesCommand =>
          /\ OvLeftReleased
          /\ overlay.visible /\ overlay.mode = "IdleWithSelection"
          /\ IsSome(overlay.toolbar_rect)
          /\ LET bar == Unwrap(overlay.toolbar_rect)
             IN  hit_test_toolbar_button(F64AsI32(overlay.last_cursor[1]),
                                         F64AsI32(overlay.last_cursor[2]),
                                         bar[1], bar[2], bar[3], bar[4])
                 = Some(last'.btn)]_vars

\* the Annotate command has just been executed
C7_Witness ==
    /\ last.ev = "LeftReleased" /\ last.btn = 4
    /\ overlay.mode = "Annotating"

\* the step is the release of a click (press in IdleWithSelection, then
\* release, no cursor move in between) at a point that is in a button slot
\* of the toolbar, drawn where the selection places it, and also inside the
\* selection or within the tolerance of one of its handles
ClickOnButtonOverSelection ==
    /\ last.ev = "LeftPressed" /\ last.pre_visible /\ last.pre_mode = "IdleWithSelection"
    /\ OvLeftReleased
    /\ IsSome(overlay.selection) /\ IsSome(overlay.toolbar_rect)
    /\ LET sel == Unwrap(overlay.selection)
           bar == Unwrap(overlay.toolbar_rect)
           cx == F64AsI32(overlay.last_cursor[1])
           cy == F64AsI32(overlay.last_cursor[2])
       IN  /\ RectNonEmpty(sel) /\ RectInCapture(sel, W, H)
           /\ overlay.toolbar_rect = compute_toolbar_rect(sel[1], sel[2], sel[3], sel[4], W, H)
           /\ IsSome(hit_test_toolbar_button(cx, cy, bar[1], bar[2], bar[3], bar[4]))
           /\ \/ InsideSelection(cx, cy, sel[1], sel[2], sel[3], sel[4])
              \/ IsSome(hit_test_handle(cx, cy, sel[1], sel[2], sel[3], sel[4]))

\* C8: a click in IdleWithSelection at a point over a toolbar button that is
\* also inside the selection or within a handle's tolerance dispatches the
\* button's command and starts neither MovingSelection nor Resizing.
C8_ToolbarClickHasPriority ==
    [][ClickOnButtonOverSelection =>
          /\ overlay.mode = "IdleWithSelection"
          /\ LET bar == Unwrap(overlay.toolbar_rect)
             IN  Some(last'.btn) =
                   hit_test_toolbar_button(F64AsI32(overlay.last_cursor[1]),
                                           F64AsI32(overlay.last_cursor[2]),
                                           bar[1], bar[2], bar[3], bar[4])]_vars

\* the step dispatches Pin on a non-empty selection inside the capture
PinOnSelectionInCapture ==
    /\ last'.btn = 1
    /\ OvLeftReleased
    /\ overlay.visible
    /\ IsSome(overlay.selection)
    /\ RectNonEmpty(Unwrap(overlay.selection))
    /\ RectInCapture(Unwrap(overlay.selection), W, H)

\* C9: dispatching Pin on a non-empty selection (x,y,w,h) inside a capture
\* with global origin (ox,oy) hides the overlay and returns PasteSelection
\* with the encoded crop of that rectangle, width = w, height = h,
\* screen_x = ox + x and screen_y = oy + y.
C9_PinReturnsPasteSelection ==
    [][PinOnSelectionInCapture =>
          LET sel == Unwrap(overlay.selection)
          IN  /\ ~overlay'.visible
              /\ last'.action.kind = "PasteSelection"
              /\ last'.action.png = <<Unwrap(overlay.screenshot)[3], sel[1], sel[2], sel[3], sel[4]>>
              /\ last'.action.width = sel[3]
              /\ last'.action.height = sel[4]
              /\ last'.action.screen_x = overlay.origin[1] + sel[1]
              /\ last'.action.screen_y = overlay.origin[2] + sel[2]]_vars

\* Pin has just been dispatched on a capture whose origin is not (0,0)
C9_Witness ==
    /\ last.ev = "LeftReleased" /\ last.btn = 1
    /\ last.action.kind = "PasteSelection"
    /\ ~overlay.visible
    /\ overlay.origin = <<5, -3>>
    /\ RectInCapture(<<last.action.png[2], last.action.png[3],
                       last.action.width, last.action.height>>, W, H)

\* the step is a window event of the overlay
OverlayEventStep ==
    \/ OvLeftPressed \/ OvLeftReleased \/ OvRightPressed \/ OvRightReleased
    \/ OvCursorMoved \/ OvEscapePressed

\* one window was appended to the collection for the action: its outer
\* position is (screen_x - margin, screen_y - margin) and it shows the crop
OneWindowAppended(act) ==
    /\ Len(paste_windows') = Len(paste_windows) + 1
    /\ SubSeq(paste_windows', 1, Len(paste_windows)) = paste_windows
    /\ LET pw == paste_windows'[Len(paste_windows')]
       IN  /\ pw.outer_position = <<act.screen_x - margin, act.screen_y - margin>>
           /\ pw.image = act.png

\* C10 as stated: for every PasteSelection action the controller appends
\* exactly one window, at (screen_x - margin, screen_y - margin); Canceled
\* and None actions create no window.
C10_EveryPasteActionCreatesWindow ==
    [][IF last'.action.kind = "PasteSelection" /\ OverlayEventStep
       THEN OneWindowAppended(last'.action)
       ELSE paste_windows' = paste_windows]_vars

\* C10 amended: for a PasteSelection action the controller appends exactly
\* one window, at (screen_x - margin, screen_y - margin), when the window's
\* construction succeeds, and none when it fails; Canceled and None actions
\* create no window.
C10_PasteActionCreatesWindowOrNone ==
    [][IF last'.action.kind = "PasteSelection" /\ OverlayEventStep
       THEN OneWindowAppended(last'.action) \/ paste_windows' = paste_windows
       ELSE paste_windows' = paste_windows]_vars

\* a window has just been created for a PasteSelection action, next to one
\* pinned earlier, with the image at the selection's place on the screen
C10_Witness ==
    /\ last.action.kind = "PasteSelection"
    /\ Len(paste_windows) = 2
    /\ paste_windows[1] = EarlierWindow
    /\ paste_windows[2].outer_position[1] + margin = overlay.origin[1] + last.action.png[2]
    /\ paste_windows[2].outer_position[2] + margin = overlay.origin[2] + last.action.png[3]

\* C11: when Pin is dispatched and the crop of the selection yields no
\* output, the overlay is hidden and the action returned is Canceled.
C11_PinWithoutOutputCancels ==
    (last.ev = "LeftReleased" /\ last.btn = 1 /\ last.action.kind # "PasteSelection")
    => (~overlay.visible /\ last.action.kind = "Canceled")

\* C12: dispatching Save (button 2) or Copy (button 3) returns the action
\* None and leaves the overlay as it was: visibility, mode, selection,
\* captured image and caches.
C12_SaveCopyLeaveOverlay ==
    [][(last'.btn \in {2, 3} /\ OvLeftReleased)
       => /\ last'.action.kind = "None"
          /\ overlay'.visible = overlay.visible
          /\ overlay'.mode = overlay.mode
          /\ overlay'.selection = overlay.selection
          /\ overlay'.screenshot = overlay.screenshot
          /\ overlay'.dim_cache = overlay.dim_cache
          /\ overlay' = overlay]_vars

\* Copy has just been dispatched from the toolbar of a visible overlay
C12_Witness ==
    /\ last.ev = "LeftReleased" /\ last.btn = 3 /\ last.action.kind = "None"
    /\ overlay.visible /\ overlay.mode = "IdleWithSelection"
    /\ IsSome(overlay.selection) /\ IsSome(overlay.screenshot)

\* C13: dispatching Annotate (button 4) sets the mode to Annotating, keeps
\* the overlay visible and the selection unchanged and returns None; in
\* Annotating no mouse press or release and no cursor move changes the mode
\* or the selection, and Escape hides the overlay.
C13_Annotating ==
    [][/\ (last'.btn = 4 /\ OvLeftReleased)
            => /\ overlay'.mode = "Annotating"
               /\ overlay'.visible
               /\ overlay'.selection = overlay.selection
               /\ last'.action.kind = "None"
       /\ (overlay.visible /\ overlay.mode = "Annotating" /\ OverlayEventStep)
            => IF last'.ev = "EscapePressed"
               THEN ~overlay'.visible
               ELSE /\ overlay'.mode = "Annotating"
                    /\ overlay'.selection = overlay.selection
                    /\ overlay'.visible]_vars

\* a cursor move has just been handled in Annotating
C13_Witness ==
    /\ last.ev = "CursorMoved" /\ last.pre_visible /\ last.pre_mode = "Annotating"
    /\ overlay.visible /\ overlay.mode = "Annotating"
    /\ IsSome(overlay.selection)

\* hit_test_handle has been applied to a rectangle with a width and a height
HandleTested ==
    /\ call.fn = "hit_test_handle" /\ IsSome(ret)
    /\ call.args[5] > 0 /\ call.args[6] > 0

\* the point is within the tolerance of the cursor of the query
NearCursor(px, py) ==
    Abs(call.args[1] - px) <= R /\ Abs(call.args[2] - py) <= R

\* the cursor of the query is within the tolerance of a corner of the rectangle
NearCorner ==
    LET x == call.args[3]  y == call.args[4]  w == call.args[5]  h == call.args[6]
    IN  \/ NearCursor(x, y) \/ NearCursor(x + w - 1, y)
        \/ NearCursor(x + w - 1, y + h - 1) \/ NearCursor(x, y + h - 1)

\* the cursor of the query is within the tolerance of an edge midpoint
NearEdgeMidpoint ==
    LET x == call.args[3]  y == call.args[4]  w == call.args[5]  h == call.args[6]
    IN  \/ NearCursor(x + w \div 2, y) \/ NearCursor(x + w - 1, y + h \div 2)
        \/ NearCursor(x + w \div 2, y + h - 1) \/ NearCursor(x, y + h \div 2)

\* C14: whenever the cursor is within the tolerance of both a corner and an
\* edge midpoint, hit_test_handle returns a corner's handle.
C14_CornerBeforeEdge ==
    (HandleTested /\ NearCorner /\ NearEdgeMidpoint)
    => Unwrap(ret) \in {Some(c) : c \in {"TopLeft", "TopRight", "BottomRight", "BottomLeft"}}

\* the handle opposite to a handle under point reflection
OppositeHandle(hd) ==
    CASE hd = "TopLeft" -> "BottomRight"
      [] hd = "BottomRight" -> "TopLeft"
      [] hd = "Top" -> "Bottom"
      [] hd = "Bottom" -> "Top"
      [] hd = "TopRight" -> "BottomLeft"
      [] hd = "BottomLeft" -> "TopRight"
      [] hd = "Left" -> "Right"
      [] hd = "Right" -> "Left"

\* C15: for a rectangle with w, h > 0, the cursor reflected through the
\* rectangle's centre (2x+w-1-cx, 2y+h-1-cy) yields the opposite handle, and
\* yields none exactly when the query yields none.
C15_ReflectionGivesOpposite ==
    HandleTested
    => LET a == call.args
           mirrored == hit_test_handle(2 * a[3] + a[5] - 1 - a[1], 2 * a[4] + a[6] - 1 - a[2],
                                       a[3], a[4], a[5], a[6])
       IN  IF Unwrap(ret) = None THEN mirrored = None
           ELSE mirrored = Some(OppositeHandle(Unwrap(Unwrap(ret))))

\* C16: a left press in IdleWithSelection with the truncated cursor on a
\* handle starts Resizing with that handle remembered; otherwise, with the
\* cursor inside the selection (x <= cx < x+w, y <= cy < y+h), it starts
\* MovingSelection with the offset (cx-x, cy-y) remembered; otherwise mode,
\* selection, remembered handle and offset are unchanged.
C16_PressInIdleWithSelection ==
    [][(/\ overlay.visible /\ overlay.mode = "IdleWithSelection"
        /\ IsSome(overlay.selection)
        /\ last'.ev = "LeftPressed" /\ OvLeftPressed)
       => LET sel == Unwrap(overlay.selection)
              cx == F64AsI32(overlay.last_cursor[1])
              cy == F64AsI32(overlay.last_cursor[2])
              hd == hit_test_handle(cx, cy, sel[1], sel[2], sel[3], sel[4])
          IN  /\ overlay'.selection = overlay.selection
              /\ IF IsSome(hd)
                 THEN /\ overlay'.mode = "Resizing"
                      /\ overlay'.resize_handle = hd
                      /\ overlay'.move_offset = overlay.move_offset
                 ELSE IF /\ sel[1] <= cx /\ cx < sel[1] + sel[3]
                         /\ sel[2] <= cy /\ cy < sel[2] + sel[4]
                 THEN /\ overlay'.mode = "MovingSelection"
                      /\ overlay'.move_offset = Some(<<cx - sel[1], cy - sel[2]>>)
                      /\ overlay'.resize_handle = overlay.resize_handle
                 ELSE /\ overlay'.mode = overlay.mode
                      /\ overlay'.resize_handle = overlay.resize_handle
                      /\ overlay'.move_offset = overlay.move_offset]_vars

\* a press inside the selection, off its handles, has just started
\* MovingSelection with the cursor's offset from the selection's origin
C16_Witness ==
    /\ last.ev = "LeftPressed" /\ last.pre_visible /\ last.pre_mode = "IdleWithSelection"
    /\ overlay.mode = "MovingSelection"
    /\ IsSome(overlay.selection) /\ IsSome(overlay.move_offset)
    /\ Unwrap(overlay.move_offset)[1] > R /\ Unwrap(overlay.move_offset)[2] > R
    /\ Unwrap(overlay.move_offset)[1] =
          F64AsI32(overlay.last_cursor[1]) - Unwrap(overlay.selection)[1]

\* ------------------------------------------------------------------------
\* compute_toolbar_rect as a function of its arguments: the initial state
\* holds one call, the only step applies the function to it.
\* ------------------------------------------------------------------------
ScreenSizes ==
    { <<1920, 1080>>, <<1920, 100>>, <<W, H>>, <<W, 4 * H>>, <<200, 100>>, <<W, 20>> }

ToolbarSelections ==
    { <<x, y, w, h>> : x \in {0, 100, 250}, y \in {0, 40, 100, 130},
                       w \in {0, 1, 50, 400}, h \in {0, 1, 30, 90, 300} }

ToolbarRectInit ==
    /\ NoController
    /\ \E sel \in ToolbarSelections, scr \in ScreenSizes :
          call = [fn |-> "compute_toolbar_rect",
                  args |-> <<sel[1], sel[2], sel[3], sel[4], scr[1], scr[2]>>]
    /\ ret = None

ApplyComputeToolbarRect ==
    /\ call.fn = "compute_toolbar_rect" /\ ret = None
    /\ LET a == call.args
       IN  ret' = Some(compute_toolbar_rect(a[1], a[2], a[3], a[4], a[5], a[6]))
    /\ UNCHANGED <<call, ControllerVars>>

ToolbarRectNext == ApplyComputeToolbarRect

SpecToolbarRect == ToolbarRectInit /\ [][ToolbarRectNext]_vars

\* compute_toolbar_rect has returned for a selection with w > 0, h > 0 and
\* a screen of positive width and height
ToolbarRectComputed ==
    /\ call.fn = "compute_toolbar_rect" /\ IsSome(ret)
    /\ call.args[3] > 0 /\ call.args[4] > 0
    /\ call.args[5] > 0 /\ call.args[6] > 0

\* C17: for every selection with w > 0 and h > 0 and every screen of
\* positive size, compute_toolbar_rect returns a rectangle (bx,by,bw,bh) with
\* bx >= 0, by >= 0, bx+bw <= screen width and by+bh <= screen height.
C17_ToolbarInsideScreen ==
    ToolbarRectComputed =>
       /\ IsSome(Unwrap(ret))
       /\ LET bar == Unwrap(Unwrap(ret))
          IN  /\ bar[1] >= 0 /\ bar[2] >= 0
              /\ bar[1] + bar[3] <= call.args[5]
              /\ bar[2] + bar[4] <= call.args[6]

ToolbarBars ==
    { <<0, 0, ToolbarTotalW, ToolbarTotalH>>, <<16, H - ToolbarTotalH, ToolbarTotalW, ToolbarTotalH>>,
      <<-3, 5, ToolbarTotalW, ToolbarTotalH>>, <<10, 10, 100, ToolbarTotalH>> }

ToolbarHitQueries ==
    UNION { { <<px, py, b[1], b[2], b[3], b[4]>> :
                 px \in (b[1] - 2)..(b[1] + ToolbarTotalW + 1),
                 py \in {b[2] - 1, b[2], b[2] + b[4] - 1, b[2] + b[4]} } : b \in ToolbarBars }

ToolbarHitInit ==
    /\ NoController
    /\ \E q \in ToolbarHitQueries : call = [fn |-> "hit_test_toolbar_button", args |-> q]
    /\ ret = None

ApplyHitTestToolbarButton ==
    /\ call.fn = "hit_test_toolbar_button" /\ ret = None
    /\ LET a == call.args
       IN  ret' = Some(hit_test_toolbar_button(a[1], a[2], a[3], a[4], a[5], a[6]))
    /\ UNCHANGED <<call, ControllerVars>>

ToolbarHitNext == ApplyHitTestToolbarButton

SpecToolbarHit == ToolbarHitInit /\ [][ToolbarHitNext]_vars

\* C19: hit_test_toolbar_button returns i in 0..4 exactly when the point is
\* inside the bar and bar_x+6+i*52 <= px < bar_x+6+i*52+48, these being the
\* horizontal extents of the buttons draw_toolbar draws; it returns none
\* outside the bar, in the side padding and in the gaps; at most one index
\* matches a point.
C19_ToolbarButtonSlots ==
    (call.fn = "hit_test_toolbar_button" /\ IsSome(ret)) =>
       LET px == call.args[1]
           py == call.args[2]
           bar_x == call.args[3]
           bar_y == call.args[4]
           bar_w == call.args[5]
           bar_h == call.args[6]
           inside == /\ bar_x <= px /\ px < bar_x + bar_w
                     /\ bar_y <= py /\ py < bar_y + bar_h
           matches == { i \in 0..4 : /\ inside
                                     /\ bar_x + 6 + i * 52 <= px
                                     /\ px < bar_x + 6 + i * 52 + 48 }
           drawn == draw_toolbar(bar_x, bar_y, bar_w, bar_h)
       IN  /\ Cardinality(matches) <= 1
           /\ \A i \in 0..4 : (Unwrap(ret) = Some(i)) <=> (i \in matches)
           /\ (matches = {}) <=> (Unwrap(ret) = None)
           /\ \A i \in 0..4 : drawn[i][1] = bar_x + 6 + i * 52 /\ drawn[i][3] = 48

\* a point in the last column of the fourth slot was answered with index 3,
\* and the column after it is a gap
C19_Witness ==
    /\ call.fn = "hit_test_toolbar_button"
    /\ call.args[1] = call.args[3] + 6 + 3 * 52 + 47
    /\ ret = Some(Some(3))
    /\ hit_test_toolbar_button(call.args[1] + 1, call.args[2], call.args[3],
                               call.args[4], call.args[5], call.args[6]) = None

\* ------------------------------------------------------------------------
\* take_selection_png as a function of the stored capture and selection.
\* Every byte of a capture differs from the others, so that a crop shows
\* where each of its bytes came from.
\* ------------------------------------------------------------------------
CaptureBytes(sw, sh) == [i \in 1..(sw * sh * 4) |-> i - 1]

CropQueries ==
    { <<sw, sh, x, y, w, h>> : sw \in 1..MaxCapture, sh \in 1..MaxCapture,
                               x \in 0..MaxCapture, y \in 0..MaxCapture,
                               w \in 0..(MaxCapture + 1), h \in 0..(MaxCapture + 1) }

CropInit ==
    /\ NoController
    /\ \E q \in CropQueries : call = [fn |-> "take_selection_png", args |-> q]
    /\ ret = None

ApplyTakeSelectionPng ==
    /\ call.fn = "take_selection_png" /\ ret = None
    /\ LET a == call.args
           o == [show_with_image(NewOverlay(<<a[1], a[2]>>), a[1], a[2], 1, <<0, 0>>)
                    EXCEPT !.selection = Some(<<a[3], a[4], a[5], a[6]>>)]
       IN  ret' = Some([crop |-> take_selection_png(o),
                        rows |-> take_selection_rows(a[1], a[2], CaptureBytes(a[1], a[2]),
                                                     o.selection)])
    /\ UNCHANGED <<call, ControllerVars>>

CropNext == ApplyTakeSelectionPng

SpecCrop == CropInit /\ [][CropNext]_vars

\* C20: for a capture (W,H) and a selection (x,y,w,h) with x+w <= W,
\* y+h <= H, w > 0 and h > 0, take_selection_png crops exactly w columns and
\* h rows, and row r of the crop is the bytes of capture row y+r from column
\* x to column x+w-1.
C20_CropIsSelection ==
    (/\ call.fn = "take_selection_png" /\ IsSome(ret)
     /\ call.args[5] > 0 /\ call.args[6] > 0
     /\ call.args[3] + call.args[5] <= call.args[1]
     /\ call.args[4] + call.args[6] <= call.args[2])
    => LET sw == call.args[1]
           x == call.args[3]
           y == call.args[4]
           w == call.args[5]
           h == call.args[6]
           r == Unwrap(ret)
       IN  /\ ~r.rows.panicked /\ IsSome(r.rows.png)
           /\ r.crop = Some(<<1, x, y, w, h>>)
           /\ LET png == Unwrap(r.rows.png)
              IN  /\ png[1] = w /\ png[2] = h
                  /\ Len(png[3]) = w * h * 4
                  /\ \A row \in 0..(h - 1), col \in 0..(w - 1), k \in 1..4 :
                        png[3][(row * w + col) * 4 + k] =
                           CaptureBytes(sw, call.args[2])[((y + row) * sw + x + col) * 4 + k]

\* a crop of two columns and two rows, off the capture's left and top edges,
\* has been taken
C20_Witness ==
    /\ call.fn = "take_selection_png" /\ IsSome(ret)
    /\ call.args[3] > 0 /\ call.args[4] > 0
    /\ call.args[5] = 2 /\ call.args[6] = 2
    /\ call.args[3] + call.args[5] <= call.args[1]
    /\ call.args[4] + call.args[6] <= call.args[2]
    /\ IsSome(Unwrap(ret).rows.png)
    /\ Len(Unwrap(Unwrap(ret).rows.png)[3]) = 16

\* ------------------------------------------------------------------------
\* The same controller, followed from the moment a selection has been
\* dragged and drawn, with cursor positions inside the selection and far
\* beyond the capture on every side
\* ------------------------------------------------------------------------
\* where the drag from (0,0) ends: inside the capture, and right of it
\* (the windowing layer keeps delivering cursor positions to the window
\* that holds the pressed button)
MoveDragEnds ==
    { <<100 * SubPixel, 30 * SubPixel>>,
      <<(W + 10) * SubPixel, 30 * SubPixel>> }

\* two points inside both selections and off their handles, one above and
\* left of the capture, one below and right of it
MovePoints ==
    { <<50 * SubPixel, 15 * SubPixel>>,
      <<70 * SubPixel, 12 * SubPixel + 1>>,
      <<-20 * SubPixel, -20 * SubPixel>>,
      <<(W + 50) * SubPixel, (H + 50) * SubPixel>> }

MoveInit ==
    /\ \E s \in Sessions : \E b \in MoveDragEnds :
         /\ overlay = Dragged(show_with_image(NewOverlay(<<W, H>>), W, H, 1, s[1]), b)
         /\ paste_windows = s[2]
    /\ next_window_id = 1
    /\ crashed = FALSE
    /\ moves = 1
    /\ last = [NoEvent EXCEPT !.ev = "LeftReleased", !.pre_mode = "Dragging",
                              !.pre_visible = TRUE]
    /\ call = NoCall
    /\ ret = None
    /\ FirstSession

OvCursorMovedFar ==
    /\ moves < MaxMoves
    /\ \E pos \in MovePoints : OverlayEvent("CursorMoved", pos)
    /\ moves' = IF overlay.visible THEN moves + 1 ELSE moves

MoveNext ==
    \/ OvLeftPressed
    \/ OvLeftReleased
    \/ OvRightPressed
    \/ OvRightReleased
    \/ OvCursorMovedFar
    \/ OvEscapePressed
    \/ RedrawRequested

SpecMove == MoveInit /\ [][MoveNext]_vars

\* a CursorMoved event handled in MovingSelection with a capture, a
\* selection and an offset stored
MovedInMovingSelection ==
    /\ last'.ev = "CursorMoved" /\ overlay.mode = "MovingSelection" /\ overlay.visible
    /\ IsSome(overlay.screenshot) /\ IsSome(overlay.selection) /\ IsSome(overlay.move_offset)
    /\ OverlayEvent("CursorMoved", overlay'.last_cursor)

\* C21: a cursor move in MovingSelection keeps the selection's width and
\* height and puts its origin at (cursor - remembered offset) clamped to the
\* capture, so that 0 <= x <= W-w and 0 <= y <= H-h.
C21_MoveKeepsSizeInsideCapture ==
    [][MovedInMovingSelection
       => LET sw == Unwrap(overlay.screenshot)[1]
              sh == Unwrap(overlay.screenshot)[2]
              w == Unwrap(overlay.selection)[3]
              h == Unwrap(overlay.selection)[4]
              ox == Unwrap(overlay.move_offset)[1]
              oy == Unwrap(overlay.move_offset)[2]
              cx == F64AsI32(overlay'.last_cursor[1])
              cy == F64AsI32(overlay'.last_cursor[2])
              new == Unwrap(overlay'.selection)
          IN  /\ IsSome(overlay'.selection)
              /\ new[3] = w /\ new[4] = h
              /\ 0 <= new[1] /\ new[1] <= sw - w
              /\ 0 <= new[2] /\ new[2] <= sh - h
              /\ new[1] = Min2(Max2(cx - ox, 0), sw - w)
              /\ new[2] = Min2(Max2(cy - oy, 0), sh - h)]_vars

\* C22: a left press in Idle sets the anchor to the cursor position and
\* clears the selection; a cursor move in Dragging sets the selection to the
\* normalized rectangle of the anchor a and the cursor c, in whole pixels:
\* (min(ax,cx), min(ay,cy), |ax-cx|, |ay-cy|), whatever the drag direction.
C22_DragGivesNormalizedRect ==
    [][/\ (/\ last'.ev = "LeftPressed" /\ overlay.visible /\ overlay.mode = "Idle"
           /\ OvLeftPressed)
          => /\ overlay'.drag_start = Some(overlay.last_cursor)
             /\ overlay'.selection = None
             /\ overlay'.mode = "Dragging"
       /\ (/\ last'.ev = "CursorMoved" /\ overlay.visible /\ overlay.mode = "Dragging"
           /\ IsSome(overlay.drag_start)
           /\ OverlayEvent("CursorMoved", overlay'.last_cursor))
          => LET a == Unwrap(overlay.drag_start)
                 c == overlay'.last_cursor
             IN  overlay'.selection =
                    Some(<<TruncDiv(Min2(a[1], c[1]), SubPixel),
                           TruncDiv(Min2(a[2], c[2]), SubPixel),
                           TruncDiv(Abs(a[1] - c[1]), SubPixel),
                           TruncDiv(Abs(a[2] - c[2]), SubPixel)>>)]_vars

\* ------------------------------------------------------------------------
\* main.rs: the event loop from the start of the program, across capture
\* sessions.  Event::AboutToWait drains the menu events, drains the hotkey
\* notifications, redraws and sweeps the windows marked for destruction.
\* ------------------------------------------------------------------------
MaxCaptures == 2
MaxQueued == 2

\* what capture_fullscreen_raw_with_origin returns for the n-th capture:
\* Err (None) or the origin and size of the captured monitor, whose origin
\* differs from one capture to the next
CaptureResults(n) == { None, Some(<<5 * (n - 1), -3 * (n - 1), W, H>>) }

\* one notification polled without the test for a visible overlay
PollHotkey_NoVisibleTest(st, new_ok, cap) ==
    LET created == st.created \/ new_ok
        o == st.o
    IN  IF created /\ IsSome(cap)
        THEN [o |-> show_with_image(o, Unwrap(cap)[3], Unwrap(cap)[4], st.captures + 1,
                                    <<Unwrap(cap)[1], Unwrap(cap)[2]>>),
              created |-> TRUE, captures |-> st.captures + 1]
        ELSE [st EXCEPT !.created = created]

\* main.rs 96-114, one notification: st holds main's overlay, whether it is
\* Some, and the number of captures taken; new_ok: OverlayState::new
\* returns Ok; cap: the result of the capture.  The pixels of a capture
\* are identified by its number.
PollHotkey(st, new_ok, cap) ==
    IF st.created /\ st.o.visible THEN st
    ELSE LET created == st.created \/ new_ok
             o == st.o
         IN  IF created /\ IsSome(cap)
             THEN [o |-> show_with_image(o, Unwrap(cap)[3], Unwrap(cap)[4], st.captures + 1,
                                         <<Unwrap(cap)[1], Unwrap(cap)[2]>>),
                   created |-> TRUE, captures |-> st.captures + 1]
             ELSE [st EXCEPT !.created = created]

\* main.rs 95-115: `while let Ok(()) = rx.try_recv()` over n notifications;
\* the set of outcomes over the results of the fallible calls
DrainHotkeys(st, n) ==
    LET RECURSIVE drain(_, _)
        drain(s, k) ==
            IF k = 0 THEN {s}
            ELSE UNION { drain(PollHotkey(s, ok, cap), k - 1) :
                            ok \in BOOLEAN, cap \in CaptureResults(s.captures + 1) }
    IN  drain(st, n)

\* the ids muda gives the two items of a window's context menu
ctx_copy_id(pw) == <<"copy", pw.id>>
ctx_destroy_id(pw) == <<"destroy", pw.id>>

\* remove(i) on a Vec
RemoveAt(ws, i) == [k \in 1..(Len(ws) - 1) |-> IF k < i THEN ws[k] ELSE ws[k + 1]]

\* main.rs 64-93, one menu event: the scan stops at the first window that
\* owns the id; a destroy item removes that window and destroys it
MenuEvent(wd, ev) ==
    LET owners == { i \in 1..Len(wd.windows) :
                       ev = ctx_copy_id(wd.windows[i]) \/ ev = ctx_destroy_id(wd.windows[i]) }
    IN  IF owners = {} THEN wd
        ELSE LET i == CHOOSE k \in owners : \A j \in owners : k <= j
             IN  IF ev = ctx_copy_id(wd.windows[i]) THEN wd
                 ELSE [windows |-> RemoveAt(wd.windows, i),
                       destroyed |-> wd.destroyed \cup {wd.windows[i].id}]

DrainMenuEvents(wd, queue) ==
    LET RECURSIVE drain(_, _)
        drain(s, q) == IF q = <<>> THEN s ELSE drain(MenuEvent(s, Head(q)), Tail(q))
    IN  drain(wd, queue)

\* the sweep running from the first index up, stepping on after a removal
SweepPendingDestroy_Forward(wd) ==
    LET RECURSIVE sweep(_, _)
        sweep(s, i) ==
            IF i > Len(s.windows) THEN s
            ELSE IF s.windows[i].pending_destroy
                 THEN sweep([windows |-> RemoveAt(s.windows, i),
                             destroyed |-> s.destroyed \cup {s.windows[i].id}], i + 1)
                 ELSE sweep(s, i + 1)
    IN  sweep(wd, 1)

\* main.rs 125-131: the sweep, from the last index down to the first
SweepPendingDestroy(wd) ==
    LET RECURSIVE sweep(_, _)
        sweep(s, i) ==
            IF i = 0 THEN s
            ELSE IF s.windows[i].pending_destroy
                 THEN sweep([windows |-> RemoveAt(s.windows, i),
                             destroyed |-> s.destroyed \cup {s.windows[i].id}], i - 1)
                 ELSE sweep(s, i - 1)
    IN  sweep(wd, Len(wd.windows))

\* Event::AboutToWait (main.rs 63-132)
AboutToWait ==
    /\ ~crashed
    /\ LET md == DrainMenuEvents([windows |-> paste_windows, destroyed |-> destroyed],
                                 menu_event_rx)
           wd == SweepPendingDestroy(md)
       IN  /\ paste_windows' = wd.windows
           /\ destroyed' = wd.destroyed
           /\ last' = [ev |-> "AboutToWait", pre_mode |-> overlay.mode,
                       pre_visible |-> overlay_created /\ overlay.visible,
                       action |-> ActionNone, btn |-> -1, polled |-> hotkey_rx,
                       window |-> OverlayWindowId,
                       swept |-> Len(md.windows) - Len(wd.windows)]
    /\ \E st \in DrainHotkeys([o |-> overlay, created |-> overlay_created,
                               captures |-> captures], hotkey_rx) :
           /\ overlay' = st.o
           /\ overlay_created' = st.created
           /\ captures' = st.captures
    /\ hotkey_rx' = 0
    /\ menu_event_rx' = <<>>
    /\ UNCHANGED <<next_window_id, crashed, moves, call, ret>>

\* hotkey.rs 17-24: the hotkey thread sends a notification for a press of F4
HotkeyPressed ==
    /\ ~crashed
    /\ hotkey_rx < MaxQueued /\ captures < MaxCaptures
    /\ hotkey_rx' = hotkey_rx + 1
    /\ UNCHANGED <<overlay, paste_windows, next_window_id, crashed, moves, last, call, ret,
                   overlay_created, menu_event_rx, captures, destroyed>>

\* a drag end whose selection gets its toolbar below it, and a point in the
\* Exit and in the Pin slot of that toolbar
SessionPoints ==
    { <<(W - 10) * SubPixel, 6 * SubPixel>>,
      <<30 * SubPixel, 20 * SubPixel>>,
      <<80 * SubPixel, 20 * SubPixel>> }

OvCursorMovedInSession ==
    /\ moves < MaxMoves
    /\ \E pos \in SessionPoints : OverlayEvent("CursorMoved", pos)
    /\ moves' = IF overlay.visible THEN moves + 1 ELSE moves

\* the program has started: no overlay yet, nothing pinned, nothing queued
SessionInit ==
    /\ NoController
    /\ call = NoCall
    /\ ret = None

SessionNext ==
    \/ HotkeyPressed
    \/ AboutToWait
    \/ OvLeftPressed
    \/ OvLeftReleased
    \/ OvRightPressed
    \/ OvRightReleased
    \/ OvCursorMovedInSession
    \/ OvEscapePressed
    \/ RedrawRequested

SpecSession == SessionInit /\ [][SessionNext]_vars

\* the overlay holds a captured image and the dimmed cache built from it
ImageAndCachePresent(o) ==
    /\ IsSome(o.screenshot) /\ IsSome(o.dim_cache)
    /\ Unwrap(o.dim_cache) = Unwrap(o.screenshot)[3]

ImageAndCacheDiscarded(o) == o.screenshot = None /\ o.dim_cache = None

\* C23: in every reachable state a visible overlay holds a captured image
\* and its dimmed cache, and a hidden overlay holds neither; a loop
\* iteration in which no capture succeeds leaves a hidden overlay hidden.
C23_VisibleOnlyWithImage ==
    /\ [](/\ overlay.visible => ImageAndCachePresent(overlay)
          /\ ~overlay.visible => ImageAndCacheDiscarded(overlay))
    /\ [][(~overlay.visible /\ captures' = captures) => ~overlay'.visible]_vars

\* the overlay was shown with a capture and an Escape press has hidden it
C23_Witness ==
    /\ captures >= 1 /\ overlay_created /\ ~overlay.visible
    /\ last.ev = "EscapePressed" /\ last.pre_visible
    /\ ImageAndCacheDiscarded(overlay)

\* C24: a loop iteration that finds the overlay visible performs no capture
\* and leaves the overlay's image, origin, mode and selection unchanged,
\* however many notifications are queued; no iteration takes more than one
\* capture.
C24_TriggerWhileVisibleIgnored ==
    [][(hotkey_rx > 0 /\ last'.ev = "AboutToWait" /\ AboutToWait)
       => /\ captures' <= captures + 1
          /\ hotkey_rx' = 0
          /\ (overlay_created /\ overlay.visible)
                => /\ captures' = captures
                   /\ overlay'.visible
                   /\ overlay'.screenshot = overlay.screenshot
                   /\ overlay'.dim_cache = overlay.dim_cache
                   /\ overlay'.origin = overlay.origin
                   /\ overlay'.mode = overlay.mode
                   /\ overlay'.selection = overlay.selection]_vars

\* an iteration has polled MaxQueued notifications while the overlay was
\* visible with a selection, and the first capture is still the one shown
C24_Witness ==
    /\ last.ev = "AboutToWait" /\ last.pre_visible /\ last.polled = MaxQueued
    /\ overlay.visible /\ captures = 1 /\ hotkey_rx = 0
    /\ overlay.mode = "IdleWithSelection" /\ IsSome(overlay.selection)

\* C25: each show_with_image starts a fresh session whatever state the
\* overlay was left in: afterwards the overlay is visible, its mode is Idle,
\* its selection is empty, the stored image and origin are those of the new
\* capture and the dimmed cache is built from the new image.
C25_ShowStartsFreshSession ==
    [][(last'.ev = "AboutToWait" /\ captures' = captures + 1 /\ AboutToWait)
       => LET cap == Unwrap(CHOOSE c \in CaptureResults(captures + 1) : IsSome(c))
          IN  /\ overlay'.visible
              /\ overlay'.mode = "Idle"
              /\ overlay'.selection = None
              /\ overlay'.screenshot = Some(<<cap[3], cap[4], captures + 1>>)
              /\ overlay'.origin = <<cap[1], cap[2]>>
              /\ overlay'.dim_cache = Some(captures + 1)]_vars

\* the second capture has just been shown by an overlay that was hidden
\* in another mode than Idle
C25_Witness ==
    /\ last.ev = "AboutToWait" /\ ~last.pre_visible /\ last.pre_mode # "Idle"
    /\ captures = 2 /\ overlay.visible /\ overlay.mode = "Idle"
    /\ overlay.selection = None
    /\ overlay.screenshot = Some(<<W, H, 2>>)

\* C26: whenever a left release in IdleWithSelection is hit-tested against
\* the toolbar, the rectangle used is compute_toolbar_rect of the current
\* selection and capture size.
C26_ToolbarRectNeverStale ==
    [][(/\ last'.ev = "LeftReleased" /\ overlay.visible
        /\ overlay.mode = "IdleWithSelection" /\ IsSome(overlay.toolbar_rect)
        /\ OvLeftReleased)
       => /\ IsSome(overlay.selection) /\ IsSome(overlay.screenshot)
          /\ LET sel == Unwrap(overlay.selection)
                 shot == Unwrap(overlay.screenshot)
             IN  overlay.toolbar_rect =
                    compute_toolbar_rect(sel[1], sel[2], sel[3], sel[4], shot[1], shot[2])]_vars

\* C27: in every reachable overlay state redraw completes: every index it
\* computes lies within the screenshot and the frame and no unsigned
\* subtraction (sw - x, sh - y, width - x, height - y) has the larger
\* subtrahend, in a build with overflow checks and in one without.
C27_RedrawNeverAborts ==
    /\ ~RedrawPanics(overlay, TRUE)
    /\ ~RedrawPanics(overlay, FALSE)

\* ------------------------------------------------------------------------
\* main.rs: the event loop with windows pinned by earlier capture sessions;
\* the events of the pinned windows, their context menus, and AboutToWait
\* ------------------------------------------------------------------------
MaxWindows == 3
\* number of window events the pinned windows handle
MaxWindowEvents == 3

\* the dispatch loop handing the event to every pinned window
DispatchToWindows_AllWindows(windows, window_id, kind, pos, global, f, handle_ok) ==
    [k \in 1..Len(windows) |->
        PasteWindow_handle_event(windows[k], kind, pos, global, f, handle_ok)]

\* the dispatch loop dropping the windows marked for destruction at once
DispatchToWindows_SweepsAtOnce(windows, window_id, kind, pos, global, f, handle_ok) ==
    SelectSeq([k \in 1..Len(windows) |->
                  IF windows[k].id = window_id
                  THEN PasteWindow_handle_event(windows[k], kind, pos, global, f, handle_ok)
                  ELSE windows[k]],
              LAMBDA pw : ~pw.pending_destroy)

\* main.rs 204-208: the event goes to the windows whose id is window_id
DispatchToWindows(windows, window_id, kind, pos, global, f, handle_ok) ==
    [k \in 1..Len(windows) |->
        IF windows[k].id = window_id
        THEN PasteWindow_handle_event(windows[k], kind, pos, global, f, handle_ok)
        ELSE windows[k]]

\* Event::WindowEvent { event, window_id } for a pinned window (main.rs
\* 182-209): window_id is not the overlay's, so the overlay does not see
\* the event
PasteWindowEvent(kind, pos, global, f) ==
    /\ ~crashed
    /\ moves < MaxWindowEvents
    /\ moves' = moves + 1
    /\ \E i \in 1..Len(paste_windows) : \E handle_ok \in BOOLEAN :
         LET window_id == paste_windows[i].id
         IN  /\ window_id # OverlayWindowId
             /\ paste_windows' = DispatchToWindows(paste_windows, window_id, kind, pos,
                                                   global, f, handle_ok)
             /\ last' = [ev |-> kind, pre_mode |-> overlay.mode,
                         pre_visible |-> overlay.visible, action |-> ActionNone,
                         btn |-> -1, polled |-> 0, window |-> window_id, swept |-> 0]
    /\ UNCHANGED <<overlay, next_window_id, crashed, call, ret, LoopVars>>

\* cursor positions inside a pinned window, and what global_cursor_position()
\* answers
LocalPoints == { <<SubPixel, SubPixel>>, <<4 * SubPixel + 1, 3 * SubPixel>> }
GlobalPoints == { None, Some(<<20, 15>>) }

PwCursorMoved ==
    \E pos \in LocalPoints, global \in GlobalPoints :
       PasteWindowEvent("CursorMoved", pos, global, FALSE)

PwLeftPressed == PasteWindowEvent("LeftPressed", <<0, 0>>, None, FALSE)

PwLeftReleased == PasteWindowEvent("LeftReleased", <<0, 0>>, None, FALSE)

PwRightReleased == PasteWindowEvent("RightReleased", <<0, 0>>, None, FALSE)

PwEscapePressed == PasteWindowEvent("EscapePressed", <<0, 0>>, None, FALSE)

PwFocused == \E f \in BOOLEAN : PasteWindowEvent("Focused", <<0, 0>>, None, f)

\* Event::WindowEvent { CloseRequested, window_id } (main.rs 147-166)
CloseRequested ==
    /\ ~crashed
    /\ \E window_id \in {OverlayWindowId} \cup {paste_windows[i].id : i \in 1..Len(paste_windows)} :
         /\ paste_windows' = SelectSeq(paste_windows, LAMBDA pw : pw.id # window_id)
         /\ last' = [ev |-> "CloseRequested", pre_mode |-> overlay.mode,
                     pre_visible |-> overlay.visible, action |-> ActionNone,
                     btn |-> -1, polled |-> 0, window |-> window_id, swept |-> 0]
    /\ UNCHANGED <<overlay, next_window_id, crashed, moves, call, ret, LoopVars>>

\* the user picks an item of a context menu that show_context_menu has
\* opened: muda queues a MenuEvent with the item's id
MenuSelected ==
    /\ ~crashed
    /\ Len(menu_event_rx) < MaxQueued
    /\ \E i \in 1..Len(paste_windows) :
         /\ paste_windows[i].click_guard = "SkipNext"
         /\ \E ev \in {ctx_copy_id(paste_windows[i]), ctx_destroy_id(paste_windows[i])} :
               menu_event_rx' = Append(menu_event_rx, ev)
    /\ UNCHANGED <<overlay, paste_windows, next_window_id, crashed, moves, last, call, ret,
                   overlay_created, hotkey_rx, captures, destroyed>>

\* the moves counter counts the window events of the pinned windows here
\* n windows pinned by the capture sessions 1..n
PinnedWindows(n) == [k \in 1..n |-> new_from_png(k - 1, <<k, 3, 4, 5, 6>>, <<3, 4>>)]

\* after n sessions that pinned a window each, a further session has
\* dragged a selection and was cancelled with Escape
WindowsInit ==
    /\ \E n \in {MaxWindows} : \E b \in DragEnds :
         /\ paste_windows = PinnedWindows(n)
         /\ next_window_id = n
         /\ captures = n + 1
         /\ overlay = hide(Dragged(show_with_image(NewOverlay(<<W, H>>), W, H, n + 1, <<0, 0>>), b))
    /\ crashed = FALSE
    /\ moves = 0
    /\ last = NoEvent
    /\ call = NoCall
    /\ ret = None
    /\ overlay_created = TRUE
    /\ hotkey_rx = 0
    /\ menu_event_rx = <<>>
    /\ destroyed = {}

WindowsNext ==
    \/ PwCursorMoved
    \/ PwLeftPressed
    \/ PwLeftReleased
    \/ PwRightReleased
    \/ PwEscapePressed
    \/ PwFocused
    \/ CloseRequested
    \/ MenuSelected
    \/ AboutToWait

SpecWindows == WindowsInit /\ [][WindowsNext]_vars

\* the ids of the windows in the live collection
LiveIds(windows) == { windows[k].id : k \in 1..Len(windows) }

\* C28: an Escape press delivered to a pinned window only sets that
\* window's pending-destroy flag: within the event no window is removed
\* from the collection, hidden or destroyed; windows are destroyed only in
\* AboutToWait.
C28_EscapeOnlyMarks ==
    [][/\ (/\ last'.ev = "EscapePressed" /\ last'.window # OverlayWindowId
           /\ PwEscapePressed)
          => /\ Len(paste_windows') = Len(paste_windows)
             /\ \A k \in 1..Len(paste_windows) :
                   paste_windows'[k] =
                      IF paste_windows[k].id = last'.window
                      THEN [paste_windows[k] EXCEPT !.pending_destroy = TRUE]
                      ELSE paste_windows[k]
             /\ destroyed' = destroyed
             /\ last'.window \notin destroyed'
       /\ (destroyed' # destroyed) => last'.ev = "AboutToWait"]_vars

\* an Escape press has marked a window that was dragging; the window is
\* still in the collection, still dragging, and not destroyed
C28_Witness ==
    /\ last.ev = "EscapePressed" /\ last.window # OverlayWindowId
    /\ \E k \in 1..Len(paste_windows) :
          /\ paste_windows[k].id = last.window
          /\ paste_windows[k].pending_destroy
          /\ paste_windows[k].dragging
    /\ last.window \notin destroyed

\* the ids of the destroy items waiting in the menu event queue
QueuedDestroyIds == { menu_event_rx[k] : k \in 1..Len(menu_event_rx) }

\* C29: AboutToWait removes from the collection and destroys every window
\* whose pending-destroy flag is set: afterwards no window of the
\* collection is pending-destroy, the windows that stay are exactly those
\* that were neither pending nor destroyed from their context menu, in
\* their order, and the windows removed are destroyed.
C29_SweepRemovesPending ==
    [][(last'.ev = "AboutToWait" /\ AboutToWait)
       => /\ \A k \in 1..Len(paste_windows') : ~paste_windows'[k].pending_destroy
          /\ paste_windows' =
                SelectSeq(paste_windows,
                          LAMBDA pw : /\ ~pw.pending_destroy
                                      /\ ctx_destroy_id(pw) \notin QueuedDestroyIds)
          /\ destroyed' = destroyed \cup (LiveIds(paste_windows) \ LiveIds(paste_windows'))
          /\ \A k \in 1..Len(paste_windows) :
                paste_windows[k].pending_destroy => paste_windows[k].id \in destroyed']_vars

\* the sweep has destroyed two adjacent windows marked by Escape and left
\* the third in the collection
C29_Witness ==
    /\ last.ev = "AboutToWait" /\ last.swept = 2
    /\ destroyed = {0, 1}
    /\ Len(paste_windows) = MaxWindows - 2
    /\ \A k \in 1..Len(paste_windows) :
          paste_windows[k].id \notin destroyed /\ ~paste_windows[k].pending_destroy

\* the kinds of input event routed to a pinned window
WindowInputs ==
    {"CursorMoved", "LeftPressed", "LeftReleased", "RightReleased", "EscapePressed", "Focused"}

\* C30: an input event routed to one pinned window changes no other window,
\* no window's membership in the collection and nothing of the overlay; a
\* context-menu destroy and the sweep's destruction of windows leave every
\* other window in the collection, unchanged, and leave the overlay
\* unchanged.
C30_WindowsIndependent ==
    [][/\ (last'.window # OverlayWindowId /\ last'.ev \in WindowInputs)
          => /\ Len(paste_windows') = Len(paste_windows)
             /\ \A k \in 1..Len(paste_windows) :
                   /\ paste_windows'[k].id = paste_windows[k].id
                   /\ paste_windows[k].id # last'.window
                         => paste_windows'[k] = paste_windows[k]
             /\ overlay' = overlay
             /\ destroyed' = destroyed
       /\ (last'.ev = "AboutToWait" /\ hotkey_rx = 0 /\ AboutToWait)
          => /\ overlay' = overlay
             /\ \A k \in 1..Len(paste_windows) :
                   paste_windows[k].id \notin destroyed'
                      => \E j \in 1..Len(paste_windows') :
                            paste_windows'[j] = paste_windows[k]]_vars

\* the middle window has been destroyed from its context menu while the
\* first window was being dragged: the first and the last window are in
\* the collection, the first still dragging
C30_Witness ==
    /\ last.ev = "AboutToWait" /\ last.swept = 0
    /\ destroyed = {1}
    /\ Len(paste_windows) = 2
    /\ paste_windows[1].id = 0 /\ paste_windows[1].dragging
    /\ paste_windows[2] = PinnedWindows(MaxWindows)[3]

\* ------------------------------------------------------------------------
\* one pinned window and the mouse: drag and click guard
\* ------------------------------------------------------------------------
MaxDragEvents == 5

\* what global_cursor_position() returns: nothing (GetCursorPos failed, or
\* a build for another platform than Windows), or the cursor on the screen
DragGlobals == { None, Some(<<20, 15>>), Some(<<26, 11>>) }

\* Event::WindowEvent for the pinned window (main.rs 204-208); the moves
\* counter counts the window's events
DragWindowEvent(kind, pos, global, f, handle_ok) ==
    /\ ~crashed
    /\ moves < MaxDragEvents
    /\ moves' = moves + 1
    /\ Len(paste_windows) = 1
    /\ LET window_id == paste_windows[1].id
       IN  /\ paste_windows' = DispatchToWindows(paste_windows, window_id, kind, pos,
                                                 global, f, handle_ok)
           /\ last' = [ev |-> kind, pre_mode |-> overlay.mode,
                       pre_visible |-> overlay.visible, action |-> ActionNone,
                       btn |-> -1, polled |-> 0, window |-> window_id, swept |-> 0]
    /\ UNCHANGED <<overlay, next_window_id, crashed, call, ret, LoopVars>>

DragCursorMoved ==
    \E pos \in LocalPoints, global \in DragGlobals :
       DragWindowEvent("CursorMoved", pos, global, FALSE, TRUE)

DragLeftPressed == DragWindowEvent("LeftPressed", <<0, 0>>, None, FALSE, TRUE)

DragLeftReleased == DragWindowEvent("LeftReleased", <<0, 0>>, None, FALSE, TRUE)

DragRightReleased ==
    \E handle_ok \in BOOLEAN : DragWindowEvent("RightReleased", <<0, 0>>, None, FALSE, handle_ok)

DragFocused == \E f \in BOOLEAN : DragWindowEvent("Focused", <<0, 0>>, None, f, TRUE)

\* one window has been pinned; the overlay is hidden
DragInit ==
    /\ \E b \in DragEnds :
         overlay = hide(Dragged(show_with_image(NewOverlay(<<W, H>>), W, H, 2, <<0, 0>>), b))
    /\ paste_windows = PinnedWindows(1)
    /\ next_window_id = 1
    /\ captures = 2
    /\ crashed = FALSE
    /\ moves = 0
    /\ last = NoEvent
    /\ call = NoCall
    /\ ret = None
    /\ overlay_created = TRUE
    /\ hotkey_rx = 0
    /\ menu_event_rx = <<>>
    /\ destroyed = {}

DragNext ==
    \/ DragCursorMoved
    \/ DragLeftPressed
    \/ DragLeftReleased
    \/ DragRightReleased
    \/ DragFocused

SpecDrag == DragInit /\ [][DragNext]_vars

\* the outer position handle_event's drag arm gives the window pw for the
\* global cursor position g
DraggedTo(pw, g) == <<g[1] - pw.drag_offset[1], g[2] - pw.drag_offset[2]>>

\* C31 (as stated): every cursor move of a window that is being dragged
\* sets the window's outer position to the global cursor position minus
\* the offset recorded at the press.
C31_EveryDragMoveRepositions ==
    [][\A pos \in LocalPoints, global \in DragGlobals :
          (/\ last'.ev = "CursorMoved"
           /\ paste_windows[1].dragging
           /\ DragWindowEvent("CursorMoved", pos, global, FALSE, TRUE))
          => /\ IsSome(global)
             /\ paste_windows'[1].outer_position = DraggedTo(paste_windows[1], Unwrap(global))]_vars

\* C31 (amended): while the dragging flag is set, a cursor move for which
\* the global cursor position is available sets the outer position to that
\* position minus the offset recorded at the press, and one for which it is
\* not available leaves the window where it is; the offset is the local
\* cursor position, truncated, that an unguarded left press found, and
\* nothing else changes it; cursor moves while not dragging, and every
\* other event, never move the window; a left release ends the drag.
C31_DragFollowsGlobalCursor ==
    [][/\ \A pos \in LocalPoints, global \in DragGlobals :
             (last'.ev = "CursorMoved" /\ DragWindowEvent("CursorMoved", pos, global, FALSE, TRUE))
             => /\ paste_windows'[1].outer_position =
                      IF paste_windows[1].dragging /\ IsSome(global)
                      THEN DraggedTo(paste_windows[1], Unwrap(global))
                      ELSE paste_windows[1].outer_position
                /\ paste_windows'[1].dragging = paste_windows[1].dragging
       /\ (last'.ev = "LeftPressed" /\ DragLeftPressed /\ paste_windows[1].click_guard # "SkipNext")
             => /\ paste_windows'[1].dragging
                /\ paste_windows'[1].drag_offset =
                      <<TruncDiv(paste_windows[1].last_local_cursor[1], SubPixel),
                        TruncDiv(paste_windows[1].last_local_cursor[2], SubPixel)>>
       /\ (last'.ev = "LeftPressed" /\ DragLeftPressed /\ paste_windows[1].click_guard = "SkipNext")
             => /\ paste_windows'[1].dragging = paste_windows[1].dragging
                /\ paste_windows'[1].drag_offset = paste_windows[1].drag_offset
       /\ (last'.ev = "LeftReleased" /\ DragLeftReleased) => ~paste_windows'[1].dragging
       /\ (last'.ev # "CursorMoved" /\ DragNext)
             => paste_windows'[1].outer_position = paste_windows[1].outer_position
       /\ (last'.ev # "LeftPressed" /\ DragNext)
             => paste_windows'[1].drag_offset = paste_windows[1].drag_offset]_vars

\* the window, pressed at local (4.5, 3), has followed the global cursor
\* from (20,15) to (26,11): its origin is (22,8), moved by the cursor's
\* delta (6,-4) from (16,12)
C31_Witness ==
    /\ last.ev = "CursorMoved"
    /\ paste_windows[1].dragging
    /\ paste_windows[1].drag_offset = <<4, 3>>
    /\ paste_windows[1].outer_position = <<22, 8>>
    /\ moves = 4

\* C40: a right release that shows the context menu sets the click guard;
\* the left press that finds the guard set starts no drag and resets the
\* guard; a left press that finds the guard reset starts a drag; after
\* every left press the guard is reset, and only a right release sets it,
\* so one menu opening suppresses one left press at most; a left release
\* always ends dragging.
C40_ClickGuardSkipsOnePress ==
    [][/\ \A handle_ok \in BOOLEAN :
             (last'.ev = "RightReleased"
              /\ DragWindowEvent("RightReleased", <<0, 0>>, None, FALSE, handle_ok))
             => /\ paste_windows'[1].click_guard =
                      IF handle_ok THEN "SkipNext" ELSE paste_windows[1].click_guard
                /\ paste_windows'[1].dragging = paste_windows[1].dragging
       /\ (last'.ev = "LeftPressed" /\ DragLeftPressed)
             => /\ paste_windows'[1].click_guard = "Idle"
                /\ paste_windows'[1].dragging =
                      IF paste_windows[1].click_guard = "SkipNext"
                      THEN paste_windows[1].dragging ELSE TRUE
       /\ (last'.ev = "LeftReleased" /\ DragLeftReleased)
             => /\ ~paste_windows'[1].dragging
                /\ paste_windows'[1].click_guard = paste_windows[1].click_guard
       /\ (last'.ev # "RightReleased" /\ DragNext /\ paste_windows'[1].click_guard = "SkipNext")
             => paste_windows[1].click_guard = "SkipNext"]_vars

\* the left press after a menu opening has been consumed: the guard is
\* reset and the window is not dragged
C40_Witness ==
    /\ last.ev = "LeftPressed"
    /\ ~paste_windows[1].dragging
    /\ paste_windows[1].click_guard = "Idle"

\* ------------------------------------------------------------------------
\* paste_window.rs: the two frames of a pinned window and its redraw
\* ------------------------------------------------------------------------
\* longest side of the images given to build_frames
MaxImage == 3

\* the colours of build_frames, as u32 patterns: 0xFF1E1E1E, 0xFF202020,
\* 0xFF3DA5F4, 0xFF888888
frame_fill == -14803426
outer == -14671840
inner_focus == -12737036
inner_unfocus == -7829368

\* one frame of build_frames (paste_window.rs 302-354), in the order the
\* code writes it: the fill, the image rows, the outer ring, then (for
\* margin >= 2) the inner ring in the colour `inner`.  Element i of the
\* sequence is the pixel of index i - 1.
build_frame(image, w, h, m, inner) ==
    LET total_w == w + m * 2
        total_h == h + m * 2
        len == total_w * total_h
        filled == [i \in 1..len |-> frame_fill]
        copied == [i \in 1..len |->
                     IF \E row \in 0..(h - 1) :
                           /\ i - 1 >= (row + m) * total_w + m
                           /\ i - 1 < (row + m) * total_w + m + w
                     THEN LET row == CHOOSE r \in 0..(h - 1) :
                                        /\ i - 1 >= (r + m) * total_w + m
                                        /\ i - 1 < (r + m) * total_w + m + w
                          IN  image[row * w + (i - 1 - ((row + m) * total_w + m)) + 1]
                     ELSE filled[i]]
        outer_ring == { x : x \in 0..(total_w - 1) }
                      \cup { (total_h - 1) * total_w + x : x \in 0..(total_w - 1) }
                      \cup { y * total_w : y \in 0..(total_h - 1) }
                      \cup { y * total_w + (total_w - 1) : y \in 0..(total_h - 1) }
        ringed == [i \in 1..len |-> IF (i - 1) \in outer_ring THEN outer ELSE copied[i]]
        inner_ring == { total_w + x : x \in 1..(total_w - 2) }
                      \cup { (total_h - 2) * total_w + x : x \in 1..(total_w - 2) }
                      \cup { y * total_w + 1 : y \in 1..(total_h - 2) }
                      \cup { y * total_w + total_w - 2 : y \in 1..(total_h - 2) }
    IN  IF m >= 2
        THEN [i \in 1..len |-> IF (i - 1) \in inner_ring THEN inner ELSE ringed[i]]
        ELSE ringed

\* build_frames drawing the inner ring of both frames in the focused colour
build_frames_SameRing(image, w, h, m) ==
    <<build_frame(image, w, h, m, inner_focus), build_frame(image, w, h, m, inner_focus)>>

\* build_frames(image, w, h, margin) -> (focus, unfocus)
build_frames(image, w, h, m) ==
    <<build_frame(image, w, h, m, inner_focus), build_frame(image, w, h, m, inner_unfocus)>>

\* PasteWindow::redraw (paste_window.rs 213-240): what is copied into the
\* surface's buffer before it is presented (None: nothing is copied).
\* same_window: window_id is this window's; surface: "none" (released by
\* destroy), "error" (buffer_mut failed) or "ok"; buf_len: the buffer's
\* length.
PasteWindow_redraw(focused, frame_focus, frame_unfocus, total_w, total_h, same_window, surface, buf_len) ==
    IF ~same_window THEN None
    ELSE IF surface # "ok" THEN None
    ELSE LET src == IF focused THEN frame_focus ELSE frame_unfocus
             need == total_w * total_h
         IN  IF buf_len >= need /\ Len(src) = need THEN Some(src) ELSE None

\* the pixels new_from_png decodes: every pixel differs from the others and
\* from the colours of the frame
ImagePixels(w, h) == [i \in 1..(w * h) |-> i]

\* <<w, h, focused, same_window, surface, buffer shortfall>>
FrameQueries ==
    { <<w, h, f, same, surf, short>> :
         w \in 1..MaxImage, h \in 1..MaxImage, f \in BOOLEAN, same \in BOOLEAN,
         surf \in {"none", "error", "ok"}, short \in {0, 1} }

FramesInit ==
    /\ NoController
    /\ \E q \in FrameQueries : call = [fn |-> "build_frames", args |-> q]
    /\ ret = None

\* new_from_png builds the frames (paste_window.rs 113); a RedrawRequested
\* for the window presents one of them
ApplyBuildFrames ==
    /\ call.fn = "build_frames" /\ ret = None
    /\ LET a == call.args
           frames == build_frames(ImagePixels(a[1], a[2]), a[1], a[2], margin)
           total_w == a[1] + margin * 2
           total_h == a[2] + margin * 2
       IN  ret' = Some([focus |-> frames[1], unfocus |-> frames[2],
                        copied |-> PasteWindow_redraw(a[3], frames[1], frames[2],
                                                      total_w, total_h, a[4], a[5],
                                                      total_w * total_h - a[6])])
    /\ UNCHANGED <<call, ControllerVars>>

FramesNext == ApplyBuildFrames

SpecFrames == FramesInit /\ [][FramesNext]_vars

\* the pixel of column x, row y in a frame total_w pixels wide
FramePixel(frame, total_w, x, y) == frame[y * total_w + x + 1]

\* C32: both frames have (w+2*margin) x (h+2*margin) pixels; the pixel at
\* (margin+i, margin+j) of both is image pixel (i,j); the outermost ring has
\* one colour in both; the ring inside it has the focused colour in one and
\* the unfocused colour in the other; everywhere else the frames are
\* equal; and what redraw copies to the surface is the focused frame when
\* the focused flag is set and the unfocused frame when it is not.
C32_FramesDifferInInnerRing ==
    (call.fn = "build_frames" /\ IsSome(ret))
    => LET w == call.args[1]
           h == call.args[2]
           tw == w + 2 * margin
           th == h + 2 * margin
           r == Unwrap(ret)
           OnOuter(x, y) == x = 0 \/ x = tw - 1 \/ y = 0 \/ y = th - 1
           OnInner(x, y) == /\ ~OnOuter(x, y)
                            /\ (x = 1 \/ x = tw - 2 \/ y = 1 \/ y = th - 2)
       IN  /\ Len(r.focus) = tw * th /\ Len(r.unfocus) = tw * th
           /\ \A i \in 0..(w - 1), j \in 0..(h - 1) :
                 /\ FramePixel(r.focus, tw, margin + i, margin + j) = ImagePixels(w, h)[j * w + i + 1]
                 /\ FramePixel(r.unfocus, tw, margin + i, margin + j) = ImagePixels(w, h)[j * w + i + 1]
           /\ \A x \in 0..(tw - 1), y \in 0..(th - 1) :
                 /\ OnOuter(x, y) => /\ FramePixel(r.focus, tw, x, y) = outer
                                     /\ FramePixel(r.unfocus, tw, x, y) = outer
                 /\ OnInner(x, y) => /\ FramePixel(r.focus, tw, x, y) = inner_focus
                                     /\ FramePixel(r.unfocus, tw, x, y) = inner_unfocus
                 /\ ~OnInner(x, y) => FramePixel(r.focus, tw, x, y) = FramePixel(r.unfocus, tw, x, y)
           /\ IsSome(r.copied)
                 => Unwrap(r.copied) = IF call.args[3] THEN r.focus ELSE r.unfocus
           /\ (call.args[4] /\ call.args[5] = "ok" /\ call.args[6] = 0) => IsSome(r.copied)

\* the frames of a 3 x 2 image have been built and the unfocused window
\* has been redrawn with the unfocused frame
C32_Witness ==
    /\ call.fn = "build_frames" /\ IsSome(ret)
    /\ call.args[1] = 3 /\ call.args[2] = 2 /\ ~call.args[3]
    /\ Unwrap(ret).copied = Some(Unwrap(ret).unfocus)
    /\ Unwrap(ret).focus # Unwrap(ret).unfocus

\* ------------------------------------------------------------------------
\* snip-core capture.rs / screenshot.rs: channel order and area capture
\* ------------------------------------------------------------------------
\* Vec::resize(n, 0)
Resize(v, n) ==
    IF Len(v) >= n THEN SubSeq(v, 1, n)
    ELSE v \o [i \in 1..(n - Len(v)) |-> 0]

\* bgra_to_rgba copying every chunk as it is
bgra_to_rgba_NoSwap(bgra, w, h) ==
    LET chunks == Len(bgra) \div 4
        out == [i \in 1..(chunks * 4) |-> bgra[i]]
    IN  Resize(out, w * h * 4)

\* bgra_to_rgba (capture.rs 56-70, screenshot.rs 54-68): chunks_exact(4)
\* leaves out a last chunk of fewer than four bytes; byte k of an output
\* chunk is byte 2, 1, 0, 3 of the input chunk for k = 0, 1, 2, 3; the
\* output is then resized to w * h * 4 bytes
bgra_to_rgba(bgra, w, h) ==
    LET chunks == Len(bgra) \div 4
        from(k) == CASE k = 0 -> 2 [] k = 1 -> 1 [] k = 2 -> 0 [] OTHER -> 3
        out == [i \in 1..(chunks * 4) |->
                  bgra[((i - 1) \div 4) * 4 + from((i - 1) % 4) + 1]]
    IN  Resize(out, w * h * 4)

\* a raw capture of n bytes in one of two patterns
RawBytes(n, pattern) ==
    [i \in 1..n |-> IF pattern = 0 THEN (i * 37) % 256 ELSE (255 - ((i * i) % 251))]

\* <<w, h, length of the input, pattern>>: inputs of w * h * 4 bytes, and
\* shorter and longer ones
BgraQueries ==
    { <<w, h, w * h * 4 + d, p>> :
         w \in 1..MaxImage, h \in 1..MaxImage, d \in -4..4, p \in {0, 1} }

BgraInit ==
    /\ NoController
    /\ \E q \in BgraQueries : call = [fn |-> "bgra_to_rgba", args |-> q]
    /\ ret = None

ApplyBgraToRgba ==
    /\ call.fn = "bgra_to_rgba" /\ ret = None
    /\ LET a == call.args
           once == bgra_to_rgba(RawBytes(a[3], a[4]), a[1], a[2])
       IN  ret' = Some([once |-> once, twice |-> bgra_to_rgba(once, a[1], a[2])])
    /\ UNCHANGED <<call, ControllerVars>>

BgraNext == ApplyBgraToRgba

SpecBgra == BgraInit /\ [][BgraNext]_vars

\* C33: for an input of exactly w*h*4 bytes the output of bgra_to_rgba has
\* the same length, every pixel (c0,c1,c2,c3) of the input is (c2,c1,c0,c3)
\* in the output, and applying the function to its output gives the input.
C33_BgraSwapsChannels02 ==
    (/\ call.fn = "bgra_to_rgba" /\ IsSome(ret)
     /\ call.args[3] = call.args[1] * call.args[2] * 4)
    => LET in == RawBytes(call.args[3], call.args[4])
           r == Unwrap(ret)
       IN  /\ Len(r.once) = Len(in)
           /\ \A px \in 0..(call.args[1] * call.args[2] - 1) :
                 /\ r.once[px * 4 + 1] = in[px * 4 + 3]
                 /\ r.once[px * 4 + 2] = in[px * 4 + 2]
                 /\ r.once[px * 4 + 3] = in[px * 4 + 1]
                 /\ r.once[px * 4 + 4] = in[px * 4 + 4]
           /\ r.twice = in

\* a 2 x 3 capture of 24 bytes has been converted, and the conversion
\* changed it
C33_Witness ==
    /\ call.fn = "bgra_to_rgba" /\ IsSome(ret)
    /\ call.args[1] = 2 /\ call.args[2] = 3 /\ call.args[3] = 24
    /\ Unwrap(ret).once # RawBytes(24, call.args[4])
    /\ Unwrap(ret).twice = RawBytes(24, call.args[4])

\* capture_area locating the rows with the width of the crop
capture_area_CropStride(rect, screen, force_bgra) ==
    IF ~IsSome(screen) THEN [ok |-> FALSE, panicked |-> FALSE, png |-> None]
    ELSE
    LET scr == Unwrap(screen)
        rel_x == IF rect[1] - scr.x > 0 THEN rect[1] - scr.x ELSE 0
        rel_y == IF rect[2] - scr.y > 0 THEN rect[2] - scr.y ELSE 0
        max_w == IF scr.width >= rel_x THEN scr.width - rel_x ELSE 0
        max_h == IF scr.height >= rel_y THEN scr.height - rel_y ELSE 0
        crop_w == IF rect[3] < max_w THEN rect[3] ELSE max_w
        crop_h == IF rect[4] < max_h THEN rect[4] ELSE max_h
        rgba_full == IF force_bgra THEN bgra_to_rgba(scr.raw, scr.width, scr.height)
                     ELSE scr.raw
        start(row) == (((rel_y + row) * crop_w) + rel_x) * 4
        end(row) == start(row) + crop_w * 4
        RECURSIVE rows(_)
        rows(row) == IF row >= crop_h THEN <<>>
                     ELSE SubSeq(rgba_full, start(row) + 1, end(row)) \o rows(row + 1)
    IN  IF ~scr.capture_ok THEN [ok |-> FALSE, panicked |-> FALSE, png |-> None]
        ELSE IF \E row \in 0..(crop_h - 1) : end(row) > Len(rgba_full)
             THEN [ok |-> FALSE, panicked |-> TRUE, png |-> None]
        ELSE [ok |-> TRUE, panicked |-> FALSE, png |-> Some(<<crop_w, crop_h, rows(0)>>)]

\* capture_area (capture.rs 29-54, screenshot.rs 27-52).  rect: <<x, y,
\* width, height>>; screen: what Screen::from_point(rect.x, rect.y) finds
\* (None: no screen there), with the screen's origin, the size and bytes
\* of its capture and whether capturing succeeds; force_bgra: the channel
\* swap is applied (SNIP_FORCE_BGRA is set; always in screenshot.rs).
\* Result: ok (the cropped image is handed to the PNG encoder), panicked
\* (a row's slice lies outside the buffer), and the image handed over.
capture_area(rect, screen, force_bgra) ==
    IF ~IsSome(screen) THEN [ok |-> FALSE, panicked |-> FALSE, png |-> None]
    ELSE
    LET scr == Unwrap(screen)
        rel_x == IF rect[1] - scr.x > 0 THEN rect[1] - scr.x ELSE 0
        rel_y == IF rect[2] - scr.y > 0 THEN rect[2] - scr.y ELSE 0
        max_w == IF scr.width >= rel_x THEN scr.width - rel_x ELSE 0
        max_h == IF scr.height >= rel_y THEN scr.height - rel_y ELSE 0
        crop_w == IF rect[3] < max_w THEN rect[3] ELSE max_w
        crop_h == IF rect[4] < max_h THEN rect[4] ELSE max_h
        rgba_full == IF force_bgra THEN bgra_to_rgba(scr.raw, scr.width, scr.height)
                     ELSE scr.raw
        start(row) == (((rel_y + row) * scr.width) + rel_x) * 4
        end(row) == start(row) + crop_w * 4
        RECURSIVE rows(_)
        rows(row) == IF row >= crop_h THEN <<>>
                     ELSE SubSeq(rgba_full, start(row) + 1, end(row)) \o rows(row + 1)
    IN  IF ~scr.capture_ok THEN [ok |-> FALSE, panicked |-> FALSE, png |-> None]
        ELSE IF \E row \in 0..(crop_h - 1) : end(row) > Len(rgba_full)
             THEN [ok |-> FALSE, panicked |-> TRUE, png |-> None]
        ELSE [ok |-> TRUE, panicked |-> FALSE, png |-> Some(<<crop_w, crop_h, rows(0)>>)]

\* the monitors: origin and size; a monitor's capture has 4 bytes a pixel
Monitors == { <<ox, oy, mw, mh>> : ox \in {0, -2}, oy \in {0, 5},
                                   mw \in 1..MaxImage, mh \in 1..MaxImage }

\* Screen::from_point(x, y): the monitor m if the point lies on it
from_point(m, x, y, capture_ok) ==
    IF x >= m[1] /\ x < m[1] + m[3] /\ y >= m[2] /\ y < m[2] + m[4]
    THEN Some([x |-> m[1], y |-> m[2], width |-> m[3], height |-> m[4],
               raw |-> RawBytes(m[3] * m[4] * 4, 0), capture_ok |-> capture_ok])
    ELSE None

\* <<monitor, rect, capture_ok, force_bgra>>: rectangles starting on the
\* monitor or next to it, inside it or reaching over its right and bottom
\* edges
AreaQueries ==
    { <<m, <<m[1] + dx, m[2] + dy, rw, rh>>, cok, fb>> :
         m \in Monitors, dx \in -1..MaxImage, dy \in {0, 1}, rw \in 1..(MaxImage + 1),
         rh \in {1, MaxImage}, cok \in BOOLEAN, fb \in BOOLEAN }

AreaInit ==
    /\ NoController
    /\ \E q \in AreaQueries : call = [fn |-> "capture_area", args |-> q]
    /\ ret = None

ApplyCaptureArea ==
    /\ call.fn = "capture_area" /\ ret = None
    /\ LET a == call.args
       IN  ret' = Some(capture_area(a[2], from_point(a[1], a[2][1], a[2][2], a[3]), a[4]))
    /\ UNCHANGED <<call, ControllerVars>>

AreaNext == ApplyCaptureArea

SpecArea == AreaInit /\ [][AreaNext]_vars

\* C34: for a rectangle whose top-left corner lies on a monitor of size
\* (W,H) with origin (ox,oy) whose capture succeeds, capture_area reads no
\* byte outside the monitor's buffer and hands the encoder a crop of width
\* min(rect.width, W-(rect.x-ox)) and height min(rect.height, H-(rect.y-oy))
\* whose pixel (c, r) is the monitor's pixel (rect.x-ox+c, rect.y-oy+r),
\* also when the rectangle reaches over the monitor's right or bottom edge.
C34_CaptureAreaClamps ==
    (/\ call.fn = "capture_area" /\ IsSome(ret)
     /\ call.args[3]
     /\ call.args[2][1] >= call.args[1][1] /\ call.args[2][1] < call.args[1][1] + call.args[1][3]
     /\ call.args[2][2] >= call.args[1][2] /\ call.args[2][2] < call.args[1][2] + call.args[1][4])
    => LET m == call.args[1]
           rect == call.args[2]
           mw == m[3]
           mh == m[4]
           cx == rect[1] - m[1]
           cy == rect[2] - m[2]
           cw == IF rect[3] < mw - cx THEN rect[3] ELSE mw - cx
           ch == IF rect[4] < mh - cy THEN rect[4] ELSE mh - cy
           raw == RawBytes(mw * mh * 4, 0)
           channel(k) == IF call.args[4] THEN (CASE k = 1 -> 3 [] k = 3 -> 1 [] OTHER -> k) ELSE k
           r == Unwrap(ret)
       IN  /\ r.ok /\ ~r.panicked /\ IsSome(r.png)
           /\ LET png == Unwrap(r.png)
              IN  /\ png[1] = cw /\ png[2] = ch
                  /\ cw >= 1 /\ ch >= 1
                  /\ Len(png[3]) = cw * ch * 4
                  /\ \A row \in 0..(ch - 1), col \in 0..(cw - 1), k \in 1..4 :
                        png[3][(row * cw + col) * 4 + k] =
                           raw[((cy + row) * mw + cx + col) * 4 + channel(k)]

\* a rectangle starting inside a 3 x 3 monitor at (-2,5) and reaching over
\* its right and bottom edges has been cropped to 2 x 2 pixels
C34_Witness ==
    /\ call.fn = "capture_area" /\ IsSome(ret)
    /\ call.args[1] = <<-2, 5, 3, 3>>
    /\ call.args[2] = <<-1, 6, 4, 3>>
    /\ Unwrap(ret).ok
    /\ Unwrap(Unwrap(ret).png)[1] = 2 /\ Unwrap(Unwrap(ret).png)[2] = 2

\* C35: a cursor move handled in Resizing never aborts the program: no
\* clamp of the resize is evaluated with its lower bound above its upper
\* bound.
C35_ResizeNeverAborts ==
    ~(crashed /\ last.ev = "CursorMoved" /\ last.pre_mode = "Resizing")

\* C36: in every state in which the overlay exists and is visible,
\* Dragging has an anchor stored, MovingSelection a move offset and a
\* selection, Resizing a handle and a selection, IdleWithSelection a
\* selection, and Idle has no selection stored.
C36_ModeDataConsistent ==
    (overlay_created /\ overlay.visible /\ ~crashed)
    => /\ overlay.mode = "Dragging" => IsSome(overlay.drag_start)
       /\ overlay.mode = "MovingSelection"
             => IsSome(overlay.move_offset) /\ IsSome(overlay.selection)
       /\ overlay.mode = "Resizing"
             => IsSome(overlay.resize_handle) /\ IsSome(overlay.selection)
       /\ overlay.mode = "IdleWithSelection" => IsSome(overlay.selection)
       /\ overlay.mode = "Idle" => ~IsSome(overlay.selection)

\* a second capture is shown after the first session was left with Escape
\* in the middle of a gesture, and a new selection is being dragged
C36_Witness ==
    /\ overlay_created /\ overlay.visible
    /\ captures = 2
    /\ overlay.mode = "Dragging"
    /\ IsSome(overlay.drag_start) /\ IsSome(overlay.selection)

\* the kinds of window event the overlay is sent
OverlayInputs ==
    {"LeftPressed", "LeftReleased", "RightPressed", "RightReleased", "CursorMoved",
     "EscapePressed"}

\* C37: while the overlay is hidden, every window event it is sent returns
\* the action None and leaves the whole overlay state (mode, selection,
\* anchor, last cursor, toolbar rectangle and the rest) and the pinned
\* windows as they were, and redraw changes nothing and does not abort.
C37_HiddenOverlayIgnoresEvents ==
    /\ [](~overlay.visible
            => \A dbg \in BOOLEAN : redraw(overlay, dbg) = Result(overlay, ActionNone, -1))
    /\ [][(/\ last'.ev \in OverlayInputs /\ last'.window = OverlayWindowId
           /\ overlay_created /\ ~overlay.visible
           /\ \E kind \in OverlayInputs, pos \in SessionPoints \cup {<<0, 0>>} :
                 OverlayEvent(kind, pos))
          => /\ overlay' = overlay
             /\ last'.action = ActionNone /\ last'.btn = -1
             /\ ~last'.pre_visible
             /\ paste_windows' = paste_windows
             /\ crashed' = crashed]_vars

\* the overlay, hidden with Escape in the middle of a move of the
\* selection, has been sent a left release: it is still hidden, in the
\* mode the hide left it in
C37_Witness ==
    /\ overlay_created /\ ~overlay.visible
    /\ last.ev = "LeftReleased" /\ ~last.pre_visible
    /\ overlay.mode = "MovingSelection"
    /\ IsSome(overlay.move_offset)

\* C38: whenever PasteSelection is returned, its width and height are the
\* numbers of columns and rows of the crop it carries.
C38_PasteSizeIsCropSize ==
    last.action.kind = "PasteSelection"
    => /\ last.action.width = last.action.png[4]
       /\ last.action.height = last.action.png[5]

\* C39: every window that has left the live collection has been released
\* by destroy(), whichever path removed it, and no window still in the
\* collection has been.
C39_RemovedWindowsAreDestroyed ==
    /\ \A id \in 0..(next_window_id - 1) :
          id \notin LiveIds(paste_windows) => id \in destroyed
    /\ destroyed \cap LiveIds(paste_windows) = {}

====
